---- MODULE Spec2Model ----
(***************************************************************************)
(* FiatLux backend: storage gateway, job registry, job processing and the  *)
(* agent pipelines.  Paths and other strings the code inspects are         *)
(* sequences of one-character strings, so that strip, lower, split and     *)
(* replace are computed the way the Python code computes them.             *)
(***************************************************************************)
EXTENDS Integers, Sequences, FiniteSets, TLC

VARIABLES
    storage_type, \* STORAGE_TYPE: the storage backend this deployment is configured with
    objects,    \* storage: key (a path) -> content, the stored objects
    lastOp,     \* the last Storage Gateway call and how it ended
    table,      \* DynamoDB jobs table: job_id -> item
    jobs,       \* main.py's in-memory job store: job_id -> Job
    workers,    \* one entry per running invocation of the processor
    clock,      \* logical clock standing for datetime.utcnow()
    lastRun,    \* the last agent run: the job, what the outside answered, the outcome
    lastResp,   \* the last HTTP response of the API handler
    trigger     \* the trigger layer: processed_files and the last event handled

vars ==
    <<storage_type, objects, lastOp, table, jobs, workers, clock, lastRun, lastResp, trigger>>

-----------------------------------------------------------------------------
(* Python string operations on sequences of characters                     *)

\* str.lower() on the letters the model's paths use
LowerChar(c) ==
    CASE c = "A" -> "a"
      [] c = "B" -> "b"
      [] c = "C" -> "c"
      [] c = "D" -> "d"
      [] c = "E" -> "e"
      [] c = "F" -> "f"
      [] c = "G" -> "g"
      [] c = "H" -> "h"
      [] c = "I" -> "i"
      [] c = "J" -> "j"
      [] c = "K" -> "k"
      [] c = "L" -> "l"
      [] c = "M" -> "m"
      [] c = "N" -> "n"
      [] c = "O" -> "o"
      [] c = "P" -> "p"
      [] c = "Q" -> "q"
      [] c = "R" -> "r"
      [] c = "S" -> "s"
      [] c = "T" -> "t"
      [] c = "U" -> "u"
      [] c = "V" -> "v"
      [] c = "W" -> "w"
      [] c = "X" -> "x"
      [] c = "Y" -> "y"
      [] c = "Z" -> "z"
      [] OTHER -> c

Lower(s) == [i \in 1..Len(s) |-> LowerChar(s[i])]

RECURSIVE LStrip(_, _)
LStrip(s, c) == IF s # <<>> /\ Head(s) = c THEN LStrip(Tail(s), c) ELSE s

RECURSIVE RStrip(_, _)
RStrip(s, c) ==
    IF s # <<>> /\ s[Len(s)] = c THEN RStrip(SubSeq(s, 1, Len(s) - 1), c) ELSE s

\* s.strip(c)
Strip(s, c) == RStrip(LStrip(s, c), c)

\* s.startswith(p), s.endswith(p)
StartsWith(s, p) == Len(s) >= Len(p) /\ SubSeq(s, 1, Len(p)) = p
EndsWith(s, p) == Len(s) >= Len(p) /\ SubSeq(s, Len(s) - Len(p) + 1, Len(s)) = p

\* the positions where p occurs in s
Occurrences(s, p) ==
    {i \in 1..(Len(s) - Len(p) + 1) : SubSeq(s, i, i + Len(p) - 1) = p}

\* p in s
Contains(s, p) == Occurrences(s, p) # {}

Min(S) == CHOOSE x \in S : \A y \in S : x <= y
Max(S) == CHOOSE x \in S : \A y \in S : x >= y

\* the orders in which a listing or a query can return the elements of a set
Orders(S) == {o \in [1..Cardinality(S) -> S] : \A i, j \in DOMAIN o : o[i] = o[j] => i = j}

\* s.replace(old, new, 1)
Replace1(s, old, new) ==
    IF ~Contains(s, old) THEN s
    ELSE LET i == Min(Occurrences(s, old))
         IN SubSeq(s, 1, i - 1) \o new \o SubSeq(s, i + Len(old), Len(s))

\* s.split(c) for a one-character separator
RECURSIVE Split(_, _)
Split(s, c) ==
    IF ~Contains(s, <<c>>) THEN <<s>>
    ELSE LET i == Min(Occurrences(s, <<c>>))
         IN <<SubSeq(s, 1, i - 1)>> \o Split(SubSeq(s, i + 1, Len(s)), c)

\* s.rsplit(c, 1) for a one-character separator
RSplit1(s, c) ==
    IF ~Contains(s, <<c>>) THEN <<s>>
    ELSE LET i == Max(Occurrences(s, <<c>>))
         IN <<SubSeq(s, 1, i - 1), SubSeq(s, i + 1, Len(s))>>

\* "/".join(parts)
RECURSIVE Join(_)
Join(parts) ==
    IF parts = <<>> THEN <<>>
    ELSE IF Len(parts) = 1 THEN parts[1]
    ELSE parts[1] \o <<"/">> \o Join(Tail(parts))

\* the string literals of the code
RAW_FOLDER == <<"r", "a", "w">>
RAW_SLASH == <<"r", "a", "w", "/">>
NOTES_SLASH == <<"n", "o", "t", "e", "s", "/">>
DOT_MD == <<".", "m", "d">>
DOT_PDF == <<".", "p", "d", "f">>
SUMMARY_MD == <<"_", "s", "u", "m", "m", "a", "r", "y", ".", "m", "d">>
PROJECT_NOTES == <<"p", "r", "o", "j", "e", "c", "t", "_", "n", "o", "t", "e", "s">>
PROJECT_FILES == <<"p", "r", "o", "j", "e", "c", "t", "_", "f", "i", "l", "e", "s">>
PROJECTS == <<"p", "r", "o", "j", "e", "c", "t", "s">>
SLASH == <<"/">>

-----------------------------------------------------------------------------
(* Storage Gateway: storage/base.py, storage/s3.py, storage/gdrive.py      *)

Backends == {"s3", "gdrive"}
NoError == "none"
RawFolderWriteError == "RawFolderWriteError"

\* the stored objects with key k removed / set
Without(objs, k) == [x \in (DOMAIN objs) \ {k} |-> objs[x]]
With(objs, k, v) == [x \in (DOMAIN objs) \cup {k} |-> IF x = k THEN v ELSE objs[x]]

\* StorageProvider._assert_not_raw: TRUE when it raises
assert_not_raw(path) == StartsWith(Lower(Strip(path, "/")), RAW_FOLDER)

\* S3Storage._full_path with the empty prefix the handlers construct it with
full_path(path) == Strip(path, "/")

\* GDrive resolves a path folder by folder, skipping empty parts
NonEmpty(parts) == SelectSeq(parts, LAMBDA p : p # <<>>)
GDriveKey(path) == Join(NonEmpty(Split(Strip(path, "/"), "/")))

\* S3Storage.write_file: put_object under the key, no check of the path
S3Storage_write_file(objs, path, content) ==
    [raised |-> NoError, objects |-> With(objs, full_path(path), content)]

\* S3Storage.delete_file: delete_object, the id is the key
S3Storage_delete_file(objs, file_id) ==
    [raised |-> NoError, objects |-> Without(objs, file_id)]

\* S3Storage.upload_to_raw
S3Storage_upload_to_raw(objs, path, content) ==
    [raised |-> NoError,
     objects |-> With(objs, full_path(RAW_SLASH \o Strip(path, "/")), content)]

\* GDriveStorage.write_file: _assert_not_raw first, then create or update
GDriveStorage_write_file(objs, path, content) ==
    IF assert_not_raw(path)
    THEN [raised |-> RawFolderWriteError, objects |-> objs]
    ELSE [raised |-> NoError, objects |-> With(objs, GDriveKey(path), content)]

\* GDriveStorage.delete_file: trashes the file, the raw/ check is left undone
GDriveStorage_delete_file(objs, file_id) ==
    [raised |-> NoError, objects |-> Without(objs, file_id)]

\* GDriveStorage.upload_to_raw
GDriveStorage_upload_to_raw(objs, path, content) ==
    [raised |-> NoError,
     objects |-> With(objs, GDriveKey(RAW_SLASH \o Strip(path, "/")), content)]

\* storage.write_file on the configured backend
write_file(backend, objs, path, content) ==
    IF backend = "s3" THEN S3Storage_write_file(objs, path, content)
    ELSE GDriveStorage_write_file(objs, path, content)

-----------------------------------------------------------------------------
(* Job: models/job.py.  An optional value is <<>> (None) or <<v>>.          *)

None == <<>>
Some(v) == <<v>>
EmptyDict == <<>>

\* Python truthiness of an optional string kept as characters / of any optional
TruthyStr(o) == o # None /\ o[1] # <<>>
Truthy(o) == o # None
TruthyText(o) == o # None /\ o[1] # ""

JobTypes == {"summarize", "create_project", "existing_project", "execute"}
PENDING == "pending"
PROCESSING == "processing"
COMPLETED == "completed"
FAILED == "failed"

\* Job(id=..., job_type=..., status=PENDING, raw_file_path=..., ...); the free
\* text additional_text only reaches the prompt and is left out
Job(id, job_type, raw_file_path, project_id, project_name, now) ==
    [id |-> id, job_type |-> job_type, status |-> PENDING,
     raw_file_path |-> raw_file_path, project_id |-> project_id,
     project_name |-> project_name, output_path |-> None, result |-> EmptyDict,
     error |-> None, created_at |-> now, started_at |-> None,
     completed_at |-> None]

-----------------------------------------------------------------------------
(* What the outside answers during one agent run                            *)

MaxPages == 1
MaxFiles == 2

\* the entries a structured response can list: {path, action, content}
F_main == [path |-> <<"m">>, action |-> "create", content |-> "code"]
F_old == [path |-> <<"d">>, action |-> "delete", content |-> ""]
F_raw == [path |-> RAW_SLASH \o PROJECT_NOTES \o <<"/", "n", ".", "p", "d", "f">>,
         action |-> "modify", content |-> "code"]
Entries == {F_main, F_old, F_raw}
FileLists == UNION {[1..n -> Entries] : n \in 0..MaxFiles}

N_app == <<"a", " ", "b">>
Names == {None, Some(N_app)}

\* fetch: how fetch_file_by_path(job.raw_file_path) ends; pages: how many pages
\* pdf_to_base64_images returns, -1 when it raises; llmFailAt: which completion
\* call raises, 0 for none; writeFailAt: which write_file call fails in the
\* backend, 0 for none; parse: whether the structured response is a JSON object;
\* stop: the stop reason of the streamed response; name, files: what the parsed
\* object holds; list: how list_files ends
AllEnvs ==
    [fetch : {"ok", "File not found"},
     pages : -1..MaxPages,
     llmFailAt : 0..(MaxFiles + 2),
     writeFailAt : 0..MaxFiles,
     parse : {"object", "garbage"},
     stop : {"end_turn", "max_tokens"},
     name : Names,
     files : FileLists,
     list : {"ok", "error"}]

DefaultEnv ==
    [fetch |-> "ok", pages |-> 1, llmFailAt |-> 0, writeFailAt |-> 0,
     parse |-> "object", stop |-> "end_turn", name |-> None, files |-> <<>>,
     list |-> "ok"]

-----------------------------------------------------------------------------
(* One agent run: the calls the code makes, in its order, up to the first   *)
(* one that raises or returns early                                         *)

Step(op, path, content) == [op |-> op, path |-> path, content |-> content]
Call(op) == Step(op, <<>>, "")

E_NO_PAGES == "PDF has no pages"
E_PROJECT_ID == "project_id is required"
E_PROJECT_ID_MODE == "project_id is required for existing project mode"
E_RASTER == "Unable to get page count"
E_LLM == "APIError"
E_WRITE == "ClientError"
E_LIST == "ClientError on list"
E_JSON == "Expecting value: line 1 column 1 (char 0)"
E_TRUNCATED ==
    "Response truncated - increase max_tokens or simplify request. JSON error: Expecting value: line 1 column 1 (char 0)"
E_READ_ONLY == "Cannot write to 'raw/' folder. It is read-only."

\* str(e) of what a write_file call raised
WriteErrorText(raised) == IF raised = RawFolderWriteError THEN E_READ_ONLY ELSE raised

Stopped_swallowed(steps, i, err, objs) ==
    [error |-> None, events |-> SubSeq(steps, 1, i), objects |-> objs]

\* except Exception as e: return AgentResult(success=False, data=None, error=str(e))
Stopped(steps, i, err, objs) ==
    [error |-> Some(err), events |-> SubSeq(steps, 1, i), objects |-> objs]

\* the try block of a run: execute steps[i..], stop at the first failure
RECURSIVE Exec(_, _, _, _, _, _, _, _)
Exec(steps, i, job, env, b, objs, nCalls, nWrites) ==
    IF i > Len(steps)
    THEN [error |-> None, events |-> steps, objects |-> objs]
    ELSE LET s == steps[i]
             next == Exec(steps, i + 1, job, env, b, objs, nCalls, nWrites)
         IN CASE s.op = "require_project_id" ->
                   IF ~TruthyStr(job.project_id)
                   THEN Stopped(steps, i, s.content, objs) ELSE next
              [] s.op = "fetch" ->
                   IF env.fetch # "ok"
                   THEN Stopped(steps, i, env.fetch, objs) ELSE next
              [] s.op = "rasterize" ->
                   IF env.pages < 0 THEN Stopped(steps, i, E_RASTER, objs) ELSE next
              [] s.op = "check_pages" ->
                   IF env.pages = 0 THEN Stopped(steps, i, E_NO_PAGES, objs) ELSE next
              [] s.op = "list" ->
                   IF env.list # "ok" THEN Stopped(steps, i, E_LIST, objs) ELSE next
              [] s.op = "complete" ->
                   IF nCalls + 1 = env.llmFailAt
                   THEN Stopped(steps, i, E_LLM, objs)
                   ELSE Exec(steps, i + 1, job, env, b, objs, nCalls + 1, nWrites)
              [] s.op = "parse" ->
                   IF env.parse # "object"
                   THEN Stopped(steps, i, s.content, objs) ELSE next
              [] s.op = "write" ->
                   LET r == write_file(b, objs, s.path, s.content)
                   IN IF r.raised # NoError
                      THEN Stopped(steps, i, WriteErrorText(r.raised), objs)
                      ELSE IF nWrites + 1 = env.writeFailAt
                      THEN Stopped(steps, i, E_WRITE, objs)
                      ELSE Exec(steps, i + 1, job, env, b, r.objects, nCalls, nWrites + 1)
              [] OTHER -> next

\* AgentResult(success, data, error) with the calls made and the store left
AgentResult(run, data) ==
    IF run.error = None
    THEN [success |-> TRUE, data |-> data, error |-> None,
          events |-> run.events, objects |-> run.objects]
    ELSE [success |-> FALSE, data |-> None, error |-> run.error,
          events |-> run.events, objects |-> run.objects]

\* the result payload: the keys process_job reads, and the variant's counts
Data(output_path, project_path, pages_processed, files) ==
    [output_path |-> output_path, project_path |-> project_path,
     pages_processed |-> pages_processed, files |-> files]

ReadDocument_unchecked(job) ==
    <<Step("fetch", job.raw_file_path, ""), Call("rasterize")>>

\* fetch the document, rasterize it, return early when there are no pages
ReadDocument(job) ==
    <<Step("fetch", job.raw_file_path, ""), Call("rasterize"), Call("check_pages")>>

\* path_parts[0] if len(path_parts) >= 2 else "unknown"
UNKNOWN == <<"u", "n", "k", "n", "o", "w", "n">>
user_id_of(path) ==
    LET path_parts == Split(path, "/")
    IN IF Len(path_parts) >= 2 THEN path_parts[1] ELSE UNKNOWN

\* name.replace(" ", "_")
ReplaceSpaces(name) == [i \in 1..Len(name) |-> IF name[i] = " " THEN "_" ELSE name[i]]

\* storage.list_files(folder): the stored objects directly under the folder
list_files(objs, folder) ==
    LET prefix == Strip(folder, "/") \o SLASH
    IN {k \in DOMAIN objs :
            /\ StartsWith(k, prefix)
            /\ Len(k) > Len(prefix)
            /\ ~Contains(SubSeq(k, Len(prefix) + 1, Len(k)), SLASH)}

\* one fetch per listed file; a failing one is swallowed by its own try
RECURSIVE ContextFetches(_)
ContextFetches(keys) ==
    IF keys = {} THEN <<>>
    ELSE LET k == CHOOSE x \in keys : TRUE
         IN <<Step("fetch_ctx", k, "")>> \o ContextFetches(keys \ {k})

\* the steps a loop over a list makes, one block per element
RECURSIVE Flatten(_)
Flatten(blocks) ==
    IF blocks = <<>> THEN <<>> ELSE Head(blocks) \o Flatten(Tail(blocks))

ForEach(list, Body(_)) == Flatten([i \in 1..Len(list) |-> Body(list[i])])

\* the keys of a dict filled in list order: each path once, at its first place
RECURSIVE DictKeys(_)
DictKeys(paths) ==
    IF paths = <<>> THEN <<>>
    ELSE LET rest == DictKeys(SubSeq(paths, 1, Len(paths) - 1))
             last == paths[Len(paths)]
         IN IF \E i \in 1..Len(rest) : rest[i] = last THEN rest ELSE Append(rest, last)

PathsOf(files) == [i \in 1..Len(files) |-> files[i].path]
WrittenPaths(events) ==
    LET ws == SelectSeq(events, LAMBDA e : e.op = "write")
    IN [i \in 1..Len(ws) |-> ws[i].path]

\* SummarizeAgent.run (agents/summarize.py)
SummarizeAgent_run(job, env, b, objs) ==
    LET output_path ==
            RSplit1(Replace1(job.raw_file_path, RAW_SLASH, NOTES_SLASH), ".")[1] \o DOT_MD
        steps == ReadDocument(job)
                 \o <<Call("complete"), Step("write", output_path, "summary")>>
        run == Exec(steps, 1, job, env, b, objs, 0, 0)
    IN AgentResult(run, Data(Some(output_path), None, env.pages, <<>>))

SummarizeAgentSync_run_sync_notes(job, env, b, objs) ==
    SummarizeAgent_run(job, env, b, objs)

\* SummarizeAgentSync.run_sync (lambda/processor.py)
SummarizeAgentSync_run_sync(job, env, b, objs) ==
    LET output_path == RSplit1(job.raw_file_path, ".")[1] \o SUMMARY_MD
        steps == ReadDocument(job)
                 \o <<Call("complete"), Step("write", output_path, "summary")>>
        run == Exec(steps, 1, job, env, b, objs, 0, 0)
    IN AgentResult(run, Data(Some(output_path), None, env.pages, <<>>))

NEW_PROJECT == <<"n", "e", "w", "-", "p", "r", "o", "j", "e", "c", "t">>
SRC_MAIN == <<"s", "r", "c", "/", "m", "a", "i", "n", ".", "p", "y">>
README == <<"R", "E", "A", "D", "M", "E", ".", "m", "d">>
PROJECT == <<"p", "r", "o", "j", "e", "c", "t">>

\* CreateProjectAgent._generate_structure: the parsed object, or the default
\* skeleton when json.loads raises
generate_structure(env) ==
    IF env.parse = "object"
    THEN [name |-> env.name, files |-> PathsOf(env.files)]
    ELSE [name |-> Some(NEW_PROJECT), files |-> <<SRC_MAIN, README>>]

\* CreateProjectAgent.run (agents/create_project.py)
CreateProjectAgent_run(job, env, b, objs) ==
    LET structure == generate_structure(env)
        project_name == IF structure.name = None THEN NEW_PROJECT ELSE structure.name[1]
        base_path == PROJECTS \o SLASH \o project_name
        Generate(file_path) == <<Call("complete")>>
        Write(file_path) == <<Step("write", base_path \o SLASH \o file_path, "code")>>
        steps == ReadDocument(job)
                 \o <<Call("complete"), Call("complete"), Call("parse_lenient")>>
                 \o ForEach(structure.files, Generate)
                 \o ForEach(DictKeys(structure.files), Write)
        run == Exec(steps, 1, job, env, b, objs, 0, 0)
    IN AgentResult(run, Data(None, Some(base_path), env.pages, WrittenPaths(run.events)))

\* CreateProjectAgentSync.run_sync (lambda/processor.py)
CreateProjectAgentSync_run_sync(job, env, b, objs) ==
    LET user_id == user_id_of(job.raw_file_path)
        project_name == ReplaceSpaces(IF env.name = None THEN PROJECT ELSE env.name[1])
        project_path == user_id \o SLASH \o PROJECT_FILES \o SLASH \o project_name
        GenerateAndWrite(file_path) ==
            <<Call("complete"), Step("write", project_path \o SLASH \o file_path, "code")>>
        steps == ReadDocument(job)
                 \o <<Call("complete"), Step("parse", <<>>, E_JSON)>>
                 \o ForEach(PathsOf(env.files), GenerateAndWrite)
        run == Exec(steps, 1, job, env, b, objs, 0, 0)
    IN AgentResult(run, Data(None, Some(project_path), env.pages, WrittenPaths(run.events)))

ProjectId(job) == IF job.project_id = None THEN <<>> ELSE job.project_id[1]

\* ExistingProjectAgent._generate_changes: the parsed object, or an empty
\* change list with the raw text when json.loads raises
generate_changes(env) ==
    IF env.parse = "object"
    THEN [files |-> env.files]
    ELSE [files |-> <<>>, error |-> "Failed to parse changes", raw |-> "response_text"]

RequireProjectId_absent(text) == <<>>

\* if not job.project_id: return AgentResult(success=False, data=None, error=text)
RequireProjectId(text) == <<Step("require_project_id", <<>>, text)>>

\* ExistingProjectAgent._collect_context: the context of the project; a
\* listing that raises gives exists = False, one that returns gives exists = True
collect_context(env, objs, project_path) ==
    IF env.list # "ok"
    THEN [exists |-> FALSE, files |-> {}]
    ELSE [exists |-> TRUE, files |-> list_files(objs, project_path)]

ApplyChange_all(project_root, c) ==
    <<Step("write", project_root \o SLASH \o c.path, c.content)>>

\* ExistingProjectAgent.run, phase 3: the storage calls made for one entry of
\* the change list (none for a delete, which is only recorded)
ApplyChange(project_root, c) ==
    IF c.action \in {"create", "modify"}
    THEN <<Step("write", project_root \o SLASH \o c.path, c.content)>>
    ELSE IF c.action = "delete"
    THEN <<Step("delete_skipped", project_root \o SLASH \o c.path, "")>>
    ELSE <<>>

\* ExistingProjectAgent.run (agents/existing_project.py); a failing listing
\* in _collect_context is swallowed and gives the context exists = False
ExistingProjectAgent_run(job, env, b, objs) ==
    LET project_root == PROJECTS \o SLASH \o ProjectId(job)
        project_context == collect_context(env, objs, project_root)
        listed == project_context.files
        Apply(c) == ApplyChange(project_root, c)
        Applied(c) ==
            IF c.action \in {"create", "modify"}
            THEN <<[path |-> project_root \o SLASH \o c.path, action |-> c.action]>>
            ELSE IF c.action = "delete"
            THEN <<[path |-> project_root \o SLASH \o c.path, action |-> "delete_skipped"]>>
            ELSE <<>>
        changes == generate_changes(env)
        steps == RequireProjectId(E_PROJECT_ID_MODE)
                 \o ReadDocument(job)
                 \o <<Step("list_ctx", project_root,
                           IF project_context.exists THEN "exists" ELSE "exists = False")>>
                 \o ContextFetches(listed)
                 \o <<Call("complete"), Call("complete"), Call("parse_lenient")>>
                 \o ForEach(changes.files, Apply)
        run == Exec(steps, 1, job, env, b, objs, 0, 0)
    IN AgentResult(run, [project_id |-> job.project_id,
                         changes_applied |-> ForEach(changes.files, Applied)]
                        @@ Data(None, None, env.pages, WrittenPaths(run.events)))

\* ExistingProjectAgentSync.run_sync (lambda/processor.py)
ExistingProjectAgentSync_run_sync(job, env, b, objs) ==
    LET user_id == user_id_of(job.raw_file_path)
        project_path == user_id \o SLASH \o PROJECT_FILES \o SLASH \o ProjectId(job)
        Write(f) == <<Step("write", project_path \o SLASH \o f.path, f.content)>>
        files_to_modify == SelectSeq(env.files, LAMBDA f : f.action = "modify")
        files_to_create == SelectSeq(env.files, LAMBDA f : f.action = "create")
        steps == RequireProjectId(E_PROJECT_ID)
                 \o <<Step("list", project_path, "")>>
                 \o ContextFetches(list_files(objs, project_path))
                 \o ReadDocument(job)
                 \o <<Call("complete"), Step("parse", <<>>, E_JSON)>>
                 \o ForEach(files_to_modify, Write)
                 \o ForEach(files_to_create, Write)
        run == Exec(steps, 1, job, env, b, objs, 0, 0)
    IN AgentResult(run, Data(None, Some(project_path), env.pages, WrittenPaths(run.events)))

ParseErrorText_generic(stop) == E_JSON

\* ExecuteAgentSync.run_sync: what the except of json.loads raises
ParseErrorText(stop) == IF stop = "max_tokens" THEN E_TRUNCATED ELSE E_JSON

\* ExecuteAgentSync.run_sync (lambda/processor.py)
ExecuteAgentSync_run_sync(job, env, b, objs) ==
    LET user_id == user_id_of(job.raw_file_path)
        project_name ==
            ReplaceSpaces(IF TruthyStr(job.project_name) THEN job.project_name[1] ELSE PROJECT)
        project_path == user_id \o SLASH \o PROJECT_FILES \o SLASH \o project_name
        Write(f) ==
            IF f.path # <<>> /\ f.content # ""
            THEN <<Step("write", project_path \o SLASH \o f.path, f.content)>>
            ELSE <<>>
        steps == ReadDocument(job)
                 \o <<Call("complete"),
                      Step("parse", <<>>, ParseErrorText(env.stop))>>
                 \o ForEach(env.files, Write)
        run == Exec(steps, 1, job, env, b, objs, 0, 0)
    IN AgentResult(run, Data(None, Some(project_path), env.pages, WrittenPaths(run.events)))

-----------------------------------------------------------------------------
(* Storage Gateway calls made directly, on every backend                     *)

\* a few documents and outputs, in the spellings a caller can use
P_raw_x == <<"r", "a", "w", "/", "x">>
P_RAW_x == <<"R", "A", "W", "/", "x">>
P_raw_x_slash == <<"r", "a", "w", "/", "x", "/">>
P_Raw_slash_x == <<"R", "a", "w", "/", "/", "x">>
P_slash_raw_x == <<"/", "r", "a", "w", "/", "x">>
P_notes_x == <<"n", "o", "t", "e", "s", "/", "x">>
P_x == <<"x">>

StoragePaths == {P_raw_x, P_RAW_x, P_raw_x_slash, P_Raw_slash_x, P_slash_raw_x, P_notes_x}
UploadPaths == {P_x}
Contents == {"v1", "v2"}

NoOp == [op |-> "none", backend |-> "none", path |-> <<>>, raised |-> NoError,
         changed |-> FALSE]

\* storage.write_file(path, content)
StorageWrite(p, c) ==
    LET b == storage_type
        r == write_file(b, objects, p, c)
    IN /\ objects' = r.objects
       /\ lastOp' = [op |-> "write_file", backend |-> b, path |-> p,
                     raised |-> r.raised, changed |-> r.objects # objects]
       /\ UNCHANGED <<storage_type, table, jobs, workers, clock, lastRun, lastResp, trigger>>

\* storage.delete_file(file_id): the id of a stored object (its key on S3)
StorageDelete(id) ==
    LET b == storage_type
        r == IF b = "s3" THEN S3Storage_delete_file(objects, id)
             ELSE GDriveStorage_delete_file(objects, id)
    IN /\ id \in DOMAIN objects
       /\ objects' = r.objects
       /\ lastOp' = [op |-> "delete_file", backend |-> b, path |-> id,
                     raised |-> r.raised, changed |-> r.objects # objects]
       /\ UNCHANGED <<storage_type, table, jobs, workers, clock, lastRun, lastResp, trigger>>

\* storage.upload_to_raw(path, content), the upload endpoint's call
StorageUpload(p, c) ==
    LET b == storage_type
        r == IF b = "s3" THEN S3Storage_upload_to_raw(objects, p, c)
             ELSE GDriveStorage_upload_to_raw(objects, p, c)
    IN /\ objects' = r.objects
       /\ lastOp' = [op |-> "upload_to_raw", backend |-> b, path |-> p,
                     raised |-> r.raised, changed |-> r.objects # objects]
       /\ UNCHANGED <<storage_type, table, jobs, workers, clock, lastRun, lastResp, trigger>>

NoObjects == [k \in {} |-> "v1"]
NoRun == [variant |-> "none"]
NoResp == [op |-> "none", statusCode |-> 0]
NoTrigger == [processed_files |-> {}, last |-> [op |-> "none"]]

InitStorage ==
    /\ storage_type \in Backends
    /\ objects = NoObjects
    /\ lastOp = NoOp
    /\ table = [k \in {} |-> 0]
    /\ jobs = [k \in {} |-> 0]
    /\ workers = [k \in {} |-> 0]
    /\ clock = 1
    /\ lastRun = NoRun
    /\ lastResp = NoResp
    /\ trigger = NoTrigger

NextStorage ==
    \/ \E p \in StoragePaths, c \in Contents : StorageWrite(p, c)
    \/ \E id \in DOMAIN objects : StorageDelete(id)
    \/ \E p \in UploadPaths, c \in Contents : StorageUpload(p, c)

SpecStorage == InitStorage /\ [][NextStorage]_vars

\* a path lies under the protected input root: its first segment, slashes
\* normalised, is raw in any case
UnderRawRoot(path) ==
    LET parts == NonEmpty(Split(Strip(path, "/"), "/"))
    IN Len(parts) >= 2 /\ Lower(parts[1]) = RAW_FOLDER

\* C1: every write_file and delete_file on a path under raw/, in any spelling
\* and on every backend, raises RawFolderWriteError and changes no stored object
C1_ProtectedPathRejected ==
    (lastOp.op \in {"write_file", "delete_file"} /\ UnderRawRoot(lastOp.path))
        => (lastOp.raised = RawFolderWriteError /\ ~lastOp.changed)

-----------------------------------------------------------------------------
(* Entry points that create jobs: lambda/api_handler.py, lambda/processor.py *)
(* and main.py                                                               *)

U_u == <<"u">>
U_v == <<"v">>
Users == {U_u, U_v}

P_raw_a_pdf == <<"r", "a", "w", "/", "a", ".", "p", "d", "f">>
P_raw_u_a_pdf == <<"r", "a", "w", "/", "u", "/", "a", ".", "p", "d", "f">>
P_a_pdf == <<"a", ".", "p", "d", "f">>
P_x_a_pdf == <<"x", "/", "a", ".", "p", "d", "f">>
P_u_notes_a_pdf == U_u \o SLASH \o PROJECT_NOTES \o SLASH \o P_a_pdf
P_u_notes_a_txt == U_u \o SLASH \o PROJECT_NOTES \o SLASH \o <<"a", ".", "t", "x", "t">>
P_raw_notes_a_pdf == RAW_FOLDER \o SLASH \o PROJECT_NOTES \o SLASH \o P_a_pdf
P_u_a_pdf == U_u \o SLASH \o P_a_pdf
FilePaths == {P_raw_a_pdf, P_raw_u_a_pdf, P_a_pdf, P_x_a_pdf, P_u_notes_a_pdf}
S3Keys == {P_u_notes_a_pdf, P_u_notes_a_txt, P_raw_notes_a_pdf, P_u_a_pdf}
PID_p == <<"p">>

\* response(status_code, body)
response(status_code, body) == [statusCode |-> status_code, body |-> body]
Detail(text) == [detail |-> text]

Created(job, user_id) == Some([job |-> job, user_id |-> user_id])
Reply(resp, created) == [resp |-> resp, created |-> created]

\* the path normalisation of handle_submit_job
submit_normalize(file_path, user_id) ==
    LET parts == Split(file_path, "/")
        scoped == user_id \o SLASH \o PROJECT_NOTES \o SLASH
    IN IF StartsWith(file_path, RAW_SLASH)
       THEN IF Len(parts) >= 3 THEN scoped \o parts[Len(parts)] ELSE file_path
       ELSE IF ~Contains(file_path, SLASH) THEN scoped \o file_path
       ELSE IF ~StartsWith(file_path, user_id \o SLASH) THEN scoped \o file_path
       ELSE file_path

\* handle_submit_job(body, user_id): POST /jobs of the Lambda API
handle_submit_job(body, user_id, id, now) ==
    IF body.job_type \notin JobTypes
    THEN Reply(response(400, Detail("Invalid job_type")), None)
    ELSE IF ~TruthyStr(body.file_path)
    THEN Reply(response(400, Detail("file_path (or raw_file_path) is required")), None)
    ELSE IF body.job_type = "existing_project" /\ ~TruthyStr(body.project_id)
    THEN Reply(response(400, Detail("project_id is required for existing_project jobs")),
               None)
    ELSE LET job == Job(id, body.job_type, submit_normalize(body.file_path[1], user_id),
                        body.project_id, None, now)
         IN Reply(response(200, [job_id |-> id, status |-> job.status, user_id |-> user_id]),
                  Created(job, user_id))

\* the path normalisation of handle_execute
execute_normalize(file_path, user_id) ==
    LET parts == Split(file_path, "/")
        scoped == user_id \o SLASH \o PROJECT_NOTES \o SLASH
    IN IF StartsWith(file_path, RAW_SLASH)
       THEN IF Len(parts) >= 3 THEN scoped \o parts[Len(parts)] ELSE file_path
       ELSE IF ~StartsWith(file_path, user_id \o SLASH) THEN scoped \o file_path
       ELSE file_path

\* handle_execute(body, user_id): POST /execute of the Lambda API
handle_execute(body, user_id, id, now) ==
    IF ~TruthyStr(body.file_path)
    THEN Reply(response(400, Detail("file_path is required")), None)
    ELSE IF ~TruthyStr(body.project_name)
    THEN Reply(response(400, Detail("project_name is required")), None)
    ELSE LET safe_project_name == ReplaceSpaces(body.project_name[1])
             job == Job(id, "execute", execute_normalize(body.file_path[1], user_id),
                        None, Some(safe_project_name), now)
         IN Reply(response(200, [job_id |-> id, status |-> job.status,
                                 project_name |-> safe_project_name]),
                  Created(job, user_id))

\* handle_s3_event(record): the job made for an uploaded object, if any
s3_event_job(key, id, now) ==
    IF ~EndsWith(Lower(key), DOT_PDF) THEN None
    ELSE IF ~Contains(key, SLASH \o PROJECT_NOTES \o SLASH) THEN None
    ELSE Created(Job(id, "execute", key, None, None, now), user_id_of(key))

\* submit_job(request) of main.py: POST /jobs of the application server
submit_job(request, id, now) ==
    IF request.job_type \notin JobTypes
    THEN Reply(response(400, Detail("Invalid job_type")), None)
    ELSE IF ~StartsWith(request.raw_file_path, RAW_SLASH)
    THEN Reply(response(400, Detail("raw_file_path must start with 'raw/'")), None)
    ELSE IF request.job_type = "existing_project" /\ ~TruthyStr(request.project_id)
    THEN Reply(response(400, Detail("project_id is required for existing_project jobs")),
               None)
    ELSE LET job == Job(id, request.job_type, request.raw_file_path,
                        request.project_id, None, now)
         IN Reply(response(200, [job_id |-> id, status |-> job.status]),
                  Some([job |-> job]))

JobTypeInputs == JobTypes \cup {"bogus"}
ProjectIds == {None, Some(PID_p)}
SubmitBodies ==
    [job_type : JobTypeInputs, file_path : {None} \cup {Some(f) : f \in FilePaths},
     project_id : ProjectIds]
ExecuteBodies ==
    [file_path : {None} \cup {Some(f) : f \in FilePaths}, project_name : Names]
SubmitRequests ==
    [job_type : JobTypeInputs, raw_file_path : FilePaths, project_id : ProjectIds]

-----------------------------------------------------------------------------
(* One run of one pipeline variant on a job an entry point created           *)

\* jobs the Lambda API and the S3 event handler create for user u
LambdaJobs ==
    LET replies == {handle_submit_job(body, U_u, 1, 1) : body \in SubmitBodies}
                   \cup {handle_execute(body, U_u, 1, 1) : body \in ExecuteBodies}
        made == {r.created : r \in replies} \cup {s3_event_job(k, 1, 1) : k \in S3Keys}
    IN {c[1].job : c \in made \ {None}}

\* jobs the application server creates
AppJobs ==
    LET replies == {submit_job(request, 1, 1) : request \in SubmitRequests}
    IN {c[1].job : c \in {r.created : r \in replies} \ {None}}

Variants ==
    {"SummarizeAgent", "SummarizeAgentSync", "CreateProjectAgent", "CreateProjectAgentSync",
     "ExistingProjectAgent", "ExistingProjectAgentSync", "ExecuteAgentSync"}

\* the most completion calls a variant makes
MaxCalls(variant) ==
    CASE variant \in {"SummarizeAgent", "SummarizeAgentSync"} -> 1
      [] variant = "CreateProjectAgent" -> MaxFiles + 2
      [] variant = "CreateProjectAgentSync" -> MaxFiles + 1
      [] variant = "ExistingProjectAgent" -> 2
      [] OTHER -> 1

\* the environments that differ in an answer the variant can ask for
Relevant(variant, e) ==
    /\ e.llmFailAt <= MaxCalls(variant)
    /\ variant \in {"ExistingProjectAgent", "ExistingProjectAgentSync"} \/ e.list = "ok"
    /\ variant = "ExecuteAgentSync" \/ e.stop = "end_turn"
    /\ variant \in {"CreateProjectAgent", "CreateProjectAgentSync"} \/ e.name = None
    /\ variant \in {"SummarizeAgent", "SummarizeAgentSync"}
          => (e.files = <<>> /\ e.parse = "object" /\ e.writeFailAt <= 1)
    /\ e.parse = "garbage" => (e.files = <<>> /\ e.name = None)
    /\ (e.fetch # "ok" \/ e.pages <= 0)
          => /\ e.fetch = "ok" \/ e.pages = DefaultEnv.pages
             /\ [e EXCEPT !.fetch = "ok", !.pages = DefaultEnv.pages] = DefaultEnv

EnvsOf(variant) == {e \in AllEnvs : Relevant(variant, e)}

\* agent.run(job) / agent.run_sync(job) of the variant
RunAgent(variant, job, env, b, objs) ==
    CASE variant = "SummarizeAgent" -> SummarizeAgent_run(job, env, b, objs)
      [] variant = "SummarizeAgentSync" -> SummarizeAgentSync_run_sync(job, env, b, objs)
      [] variant = "CreateProjectAgent" -> CreateProjectAgent_run(job, env, b, objs)
      [] variant = "CreateProjectAgentSync" ->
             CreateProjectAgentSync_run_sync(job, env, b, objs)
      [] variant = "ExistingProjectAgent" -> ExistingProjectAgent_run(job, env, b, objs)
      [] variant = "ExistingProjectAgentSync" ->
             ExistingProjectAgentSync_run_sync(job, env, b, objs)
      [] variant = "ExecuteAgentSync" -> ExecuteAgentSync_run_sync(job, env, b, objs)

\* data.get('output_path') or data.get('project_path')
OutputPath(data) ==
    IF TruthyStr(data.output_path) THEN data.output_path ELSE data.project_path

\* the agent process_job selects for the job type
SyncVariant(job_type) ==
    CASE job_type = "summarize" -> "SummarizeAgentSync"
      [] job_type = "create_project" -> "CreateProjectAgentSync"
      [] job_type = "existing_project" -> "ExistingProjectAgentSync"
      [] job_type = "execute" -> "ExecuteAgentSync"
      [] OTHER -> "unknown"

E_UNKNOWN_TYPE == "Unknown job type"

AppVariant_fallback(job_type) ==
    CASE job_type = "summarize" -> "SummarizeAgent"
      [] job_type = "existing_project" -> "ExistingProjectAgent"
      [] OTHER -> "CreateProjectAgent"

\* the agent process_job of main.py selects for the job type
AppVariant(job_type) ==
    CASE job_type = "summarize" -> "SummarizeAgent"
      [] job_type = "create_project" -> "CreateProjectAgent"
      [] job_type = "existing_project" -> "ExistingProjectAgent"
      [] OTHER -> "unknown"

\* process_job: the result of the run taken into the job
TakeResult(job, result) ==
    IF result.success
    THEN [job EXCEPT !.status = COMPLETED, !.result = Some(result.data),
                     !.output_path = OutputPath(result.data)]
    ELSE [job EXCEPT !.status = FAILED, !.error = result.error]

\* process_job: except Exception as e, for the ValueError of the dispatch
TakeException(job, text) == [job EXCEPT !.status = FAILED, !.error = Some(text)]

PipelineRun_rollback(variant, job, env, b) ==
    /\ LET r == RunAgent(variant, job, env, b, objects)
       IN /\ objects' = IF r.success THEN r.objects ELSE objects
          /\ lastRun' = [variant |-> variant, job |-> job, env |-> env,
                         before |-> objects, result |-> r,
                         outcome |-> TakeResult(job, r)]
    /\ UNCHANGED <<storage_type, lastOp, table, jobs, workers, clock, lastResp, trigger>>

PipelineRun(variant, job, env, b) ==
    /\ LET r == RunAgent(variant, job, env, b, objects)
       IN /\ objects' = r.objects
          /\ lastRun' = [variant |-> variant, job |-> job, env |-> env,
                         before |-> objects, result |-> r,
                         outcome |-> TakeResult(job, r)]
    /\ UNCHANGED <<storage_type, lastOp, table, jobs, workers, clock, lastResp, trigger>>

\* process_job of main.py: the application server's dispatch
RunSummarizeAgent ==
    /\ lastRun.variant = "none"
    /\ \E job \in {j \in AppJobs : AppVariant(j.job_type) = "SummarizeAgent"},
          env \in EnvsOf("SummarizeAgent") :
           PipelineRun("SummarizeAgent", job, env, storage_type)

RunCreateProjectAgent ==
    /\ lastRun.variant = "none"
    /\ \E job \in {j \in AppJobs : AppVariant(j.job_type) = "CreateProjectAgent"},
          env \in EnvsOf("CreateProjectAgent") :
           PipelineRun("CreateProjectAgent", job, env, storage_type)

RunExistingProjectAgent ==
    /\ lastRun.variant = "none"
    /\ \E job \in {j \in AppJobs : AppVariant(j.job_type) = "ExistingProjectAgent"},
          env \in EnvsOf("ExistingProjectAgent") :
           PipelineRun("ExistingProjectAgent", job, env, storage_type)

\* jobs a caller of run / run_sync builds itself, without a project reference
DirectJobs ==
    {Job(1, "existing_project", path, project_id, None, 1) :
        path \in {P_raw_a_pdf, P_u_notes_a_pdf}, project_id \in {None, Some(<<>>)}}

\* agent.run(job) / agent.run_sync(job) of the Modify-Existing agents on such a job
RunWithoutProjectId ==
    /\ lastRun.variant = "none"
    /\ \E variant \in {"ExistingProjectAgent", "ExistingProjectAgentSync"} :
          /\ variant = "ExistingProjectAgentSync" => storage_type = "s3"
          /\ \E job \in DirectJobs, env \in EnvsOf(variant) :
                 PipelineRun(variant, job, env, storage_type)

\* process_job of main.py when no agent matches: raise ValueError, caught
RunUnknownJobType ==
    /\ lastRun.variant = "none"
    /\ \E job \in {j \in AppJobs : AppVariant(j.job_type) = "unknown"} :
           lastRun' = [variant |-> "unknown", job |-> job, env |-> DefaultEnv,
                       before |-> objects,
                       result |-> [success |-> FALSE, data |-> None, error |-> None,
                                   events |-> <<>>, objects |-> objects],
                       outcome |-> TakeException(job, E_UNKNOWN_TYPE)]
    /\ UNCHANGED <<storage_type, objects, lastOp, table, jobs, workers, clock, lastResp,
                   trigger>>

\* process_job of lambda/processor.py: the Lambda dispatch, always on S3
RunSummarizeAgentSync ==
    /\ lastRun.variant = "none"
    /\ storage_type = "s3"
    /\ \E job \in {j \in LambdaJobs : SyncVariant(j.job_type) = "SummarizeAgentSync"},
          env \in EnvsOf("SummarizeAgentSync") :
           PipelineRun("SummarizeAgentSync", job, env, "s3")

RunCreateProjectAgentSync ==
    /\ lastRun.variant = "none"
    /\ storage_type = "s3"
    /\ \E job \in {j \in LambdaJobs : SyncVariant(j.job_type) = "CreateProjectAgentSync"},
          env \in EnvsOf("CreateProjectAgentSync") :
           PipelineRun("CreateProjectAgentSync", job, env, "s3")

RunExistingProjectAgentSync ==
    /\ lastRun.variant = "none"
    /\ storage_type = "s3"
    /\ \E job \in {j \in LambdaJobs : SyncVariant(j.job_type) = "ExistingProjectAgentSync"},
          env \in EnvsOf("ExistingProjectAgentSync") :
           PipelineRun("ExistingProjectAgentSync", job, env, "s3")

RunExecuteAgentSync ==
    /\ lastRun.variant = "none"
    /\ storage_type = "s3"
    /\ \E job \in {j \in LambdaJobs : SyncVariant(j.job_type) = "ExecuteAgentSync"},
          env \in EnvsOf("ExecuteAgentSync") :
           PipelineRun("ExecuteAgentSync", job, env, "s3")

\* a store that already holds one file of project p, in either layout
K_u_files_p_m == U_u \o SLASH \o PROJECT_FILES \o SLASH \o PID_p \o SLASH \o <<"m">>
K_projects_p_m == PROJECTS \o SLASH \o PID_p \o SLASH \o <<"m">>
SeededObjects == [k \in {K_u_files_p_m, K_projects_p_m} |-> "v1"]

InitPipeline ==
    /\ storage_type \in Backends
    /\ objects \in {NoObjects, SeededObjects}
    /\ lastOp = NoOp
    /\ table = [k \in {} |-> 0]
    /\ jobs = [k \in {} |-> 0]
    /\ workers = [k \in {} |-> 0]
    /\ clock = 1
    /\ lastRun = NoRun
    /\ lastResp = NoResp
    /\ trigger = NoTrigger

NextPipeline ==
    \/ RunSummarizeAgent
    \/ RunCreateProjectAgent
    \/ RunExistingProjectAgent
    \/ RunUnknownJobType
    \/ RunWithoutProjectId
    \/ RunSummarizeAgentSync
    \/ RunCreateProjectAgentSync
    \/ RunExistingProjectAgentSync
    \/ RunExecuteAgentSync

SpecPipeline == InitPipeline /\ [][NextPipeline]_vars

-----------------------------------------------------------------------------
(* Properties of one pipeline run                                            *)

Ran == lastRun.variant # "none"
CountOp(events, op) == Len(SelectSeq(events, LAMBDA s : s.op = op))
Made(op) == Ran /\ CountOp(lastRun.result.events, op) > 0

\* the keys whose stored content the run created or replaced
WrittenKeys ==
    {k \in DOMAIN lastRun.result.objects :
        k \notin DOMAIN lastRun.before \/ lastRun.result.objects[k] # lastRun.before[k]}

\* C2: no write of a pipeline run lands on the job's input document or on any
\* path under the protected root raw/
C2_NoWriteUnderRaw ==
    Ran => \A k \in WrittenKeys : ~UnderRawRoot(k) /\ k # lastRun.job.raw_file_path

\* the failures the run met: a call it made answered with a failure
FetchFailed == Made("fetch") /\ lastRun.env.fetch # "ok"
RasterFailed == Made("rasterize") /\ lastRun.env.pages < 0
CompletionFailed ==
    /\ Ran /\ lastRun.env.llmFailAt >= 1
    /\ CountOp(lastRun.result.events, "complete") >= lastRun.env.llmFailAt
WriteFailed ==
    /\ Ran /\ lastRun.env.writeFailAt >= 1
    /\ CountOp(lastRun.result.events, "write") >= lastRun.env.writeFailAt
ListFailed == (Made("list") \/ Made("list_ctx")) /\ lastRun.env.list # "ok"
ParseFailed == (Made("parse") \/ Made("parse_lenient")) /\ lastRun.env.parse # "object"

\* C8 as stated: whichever call fails, the run returns success = false with a
\* non-empty error
C8_EveryFailureFails ==
    (FetchFailed \/ RasterFailed \/ CompletionFailed \/ WriteFailed \/ ListFailed
        \/ ParseFailed)
        => /\ ~lastRun.result.success
           /\ lastRun.result.error # None
           /\ lastRun.result.error[1] # ""

\* the failures no variant swallows, and the parse and listing failures of the
\* variants that raise on them
StrictParseFailed == Made("parse") /\ lastRun.env.parse # "object"
StrictListFailed == Made("list") /\ lastRun.env.list # "ok"
HardFailure ==
    FetchFailed \/ RasterFailed \/ CompletionFailed \/ WriteFailed \/ StrictParseFailed
        \/ StrictListFailed

\* str(e) of the failure the last call of the run met
LastFailureTexts ==
    LET events == lastRun.result.events
        s == events[Len(events)]
    IN CASE s.op = "fetch" -> {lastRun.env.fetch}
         [] s.op = "rasterize" -> {E_RASTER}
         [] s.op = "complete" -> {E_LLM}
         [] s.op = "list" -> {E_LIST}
         [] s.op = "parse" -> {s.content}
         [] s.op = "write" -> {E_WRITE, E_READ_ONLY}
         [] OTHER -> {}

\* C8 (amended): a failed fetch of the document, rasterizer, completion call or
\* write, and a failed parse or listing in the variants that do not fall back,
\* ends the run with success = false and the failure's message as error
C8_HardFailureFails ==
    HardFailure
        => /\ ~lastRun.result.success
           /\ lastRun.result.error # None
           /\ lastRun.result.error[1] \in LastFailureTexts
           /\ lastRun.result.error[1] # ""

\* a second write fails in the backend after the first one was stored
C8_Witness ==
    /\ Ran /\ lastRun.variant = "CreateProjectAgentSync"
    /\ lastRun.env.writeFailAt = 2 /\ WriteFailed
    /\ lastRun.result.error = Some(E_WRITE)
    /\ WrittenKeys # {}

\* C9: when the rasterizer returns no pages the run fails with the no-pages
\* message, having made no completion call and no write
C9_NoPagesFailsCleanly ==
    (Made("rasterize") /\ lastRun.env.pages = 0)
        => /\ ~lastRun.result.success
           /\ lastRun.result.error = Some(E_NO_PAGES)
           /\ ~Made("complete") /\ ~Made("write")
           /\ lastRun.result.objects = lastRun.before

C9_Witness ==
    /\ Made("rasterize") /\ lastRun.env.pages = 0
    /\ lastRun.variant = "ExistingProjectAgentSync"
    /\ Made("fetch_ctx")
    /\ lastRun.result.error = Some(E_NO_PAGES)

-----------------------------------------------------------------------------
(* Job registry: DynamoDBJobStore (storage/dynamodb.py)                      *)

MaxJobs == 2
MaxWorkers == 2
MaxClock == 5
JobIds == 1..MaxJobs
Workers == 1..MaxWorkers
UNKNOWN_ID == 0

NoItems == [k \in {} |-> 0]

\* the item put_item stores: the job's fields and its owner
Item(job, user_id) ==
    [id |-> job.id, user_id |-> user_id, job_type |-> job.job_type,
     status |-> job.status, raw_file_path |-> job.raw_file_path,
     project_id |-> IF TruthyStr(job.project_id) THEN job.project_id ELSE None,
     project_name |-> IF TruthyStr(job.project_name) THEN job.project_name ELSE None,
     output_path |-> None, result |-> EmptyDict, error |-> None,
     created_at |-> job.created_at, started_at |-> None, completed_at |-> None]

\* DynamoDBJobStore.create_job
create_job(tbl, job, user_id) ==
    [k \in DOMAIN tbl \cup {job.id} |-> IF k = job.id THEN Item(job, user_id) ELSE tbl[k]]

\* DynamoDBJobStore._item_to_job
item_to_job(item) == [f \in DOMAIN item \ {"user_id"} |-> item[f]]

\* DynamoDBJobStore.get_job
get_job(tbl, job_id) ==
    IF job_id \in DOMAIN tbl THEN Some(item_to_job(tbl[job_id])) ELSE None

\* DynamoDBJobStore.get_job_with_user
get_job_with_user(tbl, job_id) ==
    IF job_id \in DOMAIN tbl
    THEN Some([job |-> item_to_job(tbl[job_id]), user_id |-> tbl[job_id].user_id])
    ELSE None

update_job_overwrite(tbl, job) ==
    [tbl EXCEPT ![job.id] =
        [@ EXCEPT !.status = job.status, !.started_at = job.started_at,
                  !.completed_at = job.completed_at, !.output_path = job.output_path,
                  !.result = job.result, !.error = job.error]]

\* DynamoDBJobStore.update_job: SET status, and each other attribute only when
\* the job carries a value for it
update_job(tbl, job) ==
    [tbl EXCEPT ![job.id] =
        [@ EXCEPT !.status = job.status,
                  !.started_at = IF Truthy(job.started_at) THEN job.started_at ELSE @,
                  !.completed_at = IF Truthy(job.completed_at) THEN job.completed_at ELSE @,
                  !.output_path = IF TruthyStr(job.output_path) THEN job.output_path ELSE @,
                  !.result = IF job.result # EmptyDict THEN job.result ELSE @,
                  !.error = IF TruthyText(job.error) THEN job.error ELSE @]]

\* the ids in an order of descending created_at (ScanIndexForward=False);
\* records with the same created_at come in either order
NewestFirst(tbl, ids) ==
    {o \in Orders(ids) :
        \A i, j \in DOMAIN o : i < j => tbl[o[i]].created_at >= tbl[o[j]].created_at}

list_user_jobs_scan(tbl, user_id) ==
    {[i \in DOMAIN o |-> item_to_job(tbl[o[i]])] : o \in NewestFirst(tbl, DOMAIN tbl)}

\* DynamoDBJobStore.list_user_jobs: the query of user-jobs-index for user_id,
\* every result it can return
list_user_jobs(tbl, user_id) ==
    {[i \in DOMAIN o |-> item_to_job(tbl[o[i]])] :
        o \in NewestFirst(tbl, {id \in DOMAIN tbl : tbl[id].user_id = user_id})}

\* the next uuid4: an id no job has
NewId(tbl) == Cardinality(DOMAIN tbl) + 1

-----------------------------------------------------------------------------
(* Lambda processor: lambda/processor.py, one invocation per worker          *)

Idle == [pc |-> "idle", job |-> None, ret |-> "none"]
Done(ret) == [pc |-> "done", job |-> None, ret |-> ret]

\* handle_s3_event up to its call of process_job
S3Event(w, key) ==
    /\ workers[w].pc = "idle"
    /\ Cardinality(DOMAIN table) < MaxJobs
    /\ LET c == s3_event_job(key, NewId(table), clock)
       IN IF c = None
          THEN /\ workers' = [workers EXCEPT ![w] = Done("processed")]
               /\ table' = table
          ELSE /\ table' = create_job(table, c[1].job, c[1].user_id)
               /\ workers' = [workers EXCEPT ![w] =
                                 [pc |-> "start", job |-> Some(c[1].job), ret |-> "none"]]
    /\ UNCHANGED <<storage_type, objects, lastOp, jobs, clock, lastRun, lastResp, trigger>>

Invoke_unchecked(w, job_id) ==
    /\ workers[w].pc = "idle"
    /\ LET job == get_job(table, job_id)
       IN workers' = [workers EXCEPT ![w] =
              IF job = None THEN Done("error")
              ELSE [pc |-> "start", job |-> job, ret |-> "none"]]
    /\ UNCHANGED <<storage_type, objects, lastOp, table, jobs, clock, lastRun, lastResp, trigger>>

\* handle_job_invocation up to its call of process_job
Invoke(w, job_id) ==
    /\ workers[w].pc = "idle"
    /\ LET job == get_job(table, job_id)
       IN workers' = [workers EXCEPT ![w] =
              IF job = None THEN Done("error")
              ELSE IF job[1].status # PENDING THEN Done("skipped")
              ELSE [pc |-> "start", job |-> job, ret |-> "none"]]
    /\ UNCHANGED <<storage_type, objects, lastOp, table, jobs, clock, lastRun, lastResp, trigger>>

\* process_job: status = PROCESSING, started_at = now, update_job
Start(w) ==
    /\ workers[w].pc = "start"
    /\ clock < MaxClock
    /\ LET job == [workers[w].job[1] EXCEPT !.status = PROCESSING,
                                            !.started_at = Some(clock + 1)]
       IN /\ table' = update_job(table, job)
          /\ workers' = [workers EXCEPT ![w] = [@ EXCEPT !.pc = "run", !.job = Some(job)]]
    /\ clock' = clock + 1
    /\ UNCHANGED <<storage_type, objects, lastOp, jobs, lastRun, lastResp, trigger>>

\* the invocation ended by an exception no handler caught
Raised(job) == [pc |-> "raised", job |-> job, ret |-> "raised"]

\* process_job: the first update_job raises (update_item fails); the call is
\* before the try, and neither caller catches
StartUpdateRaises(w) ==
    /\ workers[w].pc = "start"
    /\ workers' = [workers EXCEPT ![w] = Raised(workers[w].job)]
    /\ UNCHANGED <<storage_type, objects, lastOp, table, jobs, clock, lastRun, lastResp,
                   trigger>>

\* process_job: run the agent and take its result into the job
RunJob(w, env) ==
    /\ workers[w].pc = "run"
    /\ LET job == workers[w].job[1]
           result == RunAgent(SyncVariant(job.job_type), job, env, "s3", objects)
           after == TakeResult(job, result)
       IN /\ objects' = result.objects
          /\ workers' = [workers EXCEPT ![w] = [@ EXCEPT !.pc = "finish", !.job = Some(after)]]
    /\ UNCHANGED <<storage_type, lastOp, table, jobs, clock, lastRun, lastResp, trigger>>

\* process_job: completed_at = now, update_job
Finish(w) ==
    /\ workers[w].pc = "finish"
    /\ clock < MaxClock
    /\ LET job == [workers[w].job[1] EXCEPT !.completed_at = Some(clock + 1)]
       IN /\ table' = update_job(table, job)
          /\ workers' = [workers EXCEPT ![w] =
                            [pc |-> "done", job |-> Some(job), ret |-> "completed"]]
    /\ clock' = clock + 1
    /\ UNCHANGED <<storage_type, objects, lastOp, jobs, lastRun, lastResp, trigger>>

\* process_job: the last update_job raises; the call is after the except
FinishUpdateRaises(w) ==
    /\ workers[w].pc = "finish"
    /\ workers' = [workers EXCEPT ![w] = Raised(workers[w].job)]
    /\ UNCHANGED <<storage_type, objects, lastOp, table, jobs, clock, lastRun, lastResp,
                   trigger>>

LambdaEnvs == {DefaultEnv, [DefaultEnv EXCEPT !.fetch = "File not found"]}
LambdaKeys == {P_u_notes_a_pdf, P_u_a_pdf}
LambdaBodies ==
    [job_type : {"summarize", "bogus"}, file_path : {Some(P_a_pdf)}, project_id : {None}]

\* the reply of a handler, as the caller sees it
Resp(op, job_id, user_id, resp) ==
    [op |-> op, job_id |-> job_id, user_id |-> user_id,
     statusCode |-> resp.statusCode, body |-> resp.body]

\* POST /jobs of the Lambda API: handle_submit_job and its create_job
ApiSubmitJob(body, user_id) ==
    LET reply == handle_submit_job(body, user_id, NewId(table), clock)
    IN /\ reply.created # None => Cardinality(DOMAIN table) < MaxJobs
       /\ table' = IF reply.created = None THEN table
                   ELSE create_job(table, reply.created[1].job, user_id)
       /\ lastResp' = [request |-> body] @@ Resp("submit_job", None, user_id, reply.resp)
       /\ UNCHANGED <<storage_type, objects, lastOp, jobs, workers, clock, lastRun, trigger>>

\* POST /execute of the Lambda API: handle_execute and its create_job
ApiExecute(body, user_id) ==
    LET reply == handle_execute(body, user_id, NewId(table), clock)
    IN /\ reply.created # None => Cardinality(DOMAIN table) < MaxJobs
       /\ table' = IF reply.created = None THEN table
                   ELSE create_job(table, reply.created[1].job, user_id)
       /\ lastResp' = Resp("execute", None, user_id, reply.resp)
       /\ UNCHANGED <<storage_type, objects, lastOp, jobs, workers, clock, lastRun, trigger>>

handle_get_job_unchecked(tbl, job_id, user_id) ==
    LET result == IF job_id = None THEN None ELSE get_job_with_user(tbl, job_id[1])
    IN IF ~Truthy(job_id) THEN response(400, Detail("job_id is required"))
       ELSE IF result = None THEN response(404, Detail("Job not found"))
       ELSE LET job == result[1].job
            IN response(200, [job_id |-> job.id, job_type |-> job.job_type,
                              status |-> job.status, raw_file_path |-> job.raw_file_path,
                              output_path |-> job.output_path, result |-> job.result,
                              error |-> job.error, created_at |-> job.created_at,
                              completed_at |-> job.completed_at])

\* handle_get_job(job_id, user_id): GET /jobs/{job_id}
handle_get_job(tbl, job_id, user_id) ==
    LET result == IF job_id = None THEN None ELSE get_job_with_user(tbl, job_id[1])
    IN IF ~Truthy(job_id) THEN response(400, Detail("job_id is required"))
       ELSE IF result = None THEN response(404, Detail("Job not found"))
       ELSE IF result[1].user_id # user_id THEN response(403, Detail("Access denied"))
       ELSE LET job == result[1].job
            IN response(200, [job_id |-> job.id, job_type |-> job.job_type,
                              status |-> job.status, raw_file_path |-> job.raw_file_path,
                              output_path |-> job.output_path, result |-> job.result,
                              error |-> job.error, created_at |-> job.created_at,
                              completed_at |-> job.completed_at])

ApiGetJob(job_id, user_id) ==
    /\ lastResp' = Resp("get_job", job_id, user_id, handle_get_job(table, job_id, user_id))
    /\ UNCHANGED <<storage_type, objects, lastOp, table, jobs, workers, clock, lastRun, trigger>>

\* the record of a job in a listing
Abbreviated(j) ==
    [job_id |-> j.id, job_type |-> j.job_type, status |-> j.status,
     created_at |-> j.created_at]

\* handle_list_jobs(user_id), given what list_user_jobs returned
handle_list_jobs(listed) == response(200, [i \in DOMAIN listed |-> Abbreviated(listed[i])])

\* GET /jobs of the Lambda API
ApiListJobs(user_id) ==
    /\ \E listed \in list_user_jobs(table, user_id) :
          lastResp' = Resp("list_jobs", None, user_id, handle_list_jobs(listed))
    /\ UNCHANGED <<storage_type, objects, lastOp, table, jobs, workers, clock, lastRun, trigger>>

\* list_jobs() of main.py: sorted(jobs.values(), key=created_at, reverse=True),
\* a stable sort of the values in their insertion order
list_jobs(jbs) ==
    LET Before(a, b) ==
            \/ jbs[a].created_at > jbs[b].created_at
            \/ jbs[a].created_at = jbs[b].created_at /\ a < b
        o == CHOOSE o \in Orders(DOMAIN jbs) :
                 \A i, j \in DOMAIN o : i < j => Before(o[i], o[j])
    IN [i \in DOMAIN o |-> Abbreviated(jbs[o[i]])]

AppRequests ==
    [job_type : {"summarize"}, raw_file_path : {P_raw_a_pdf}, project_id : {None}]

\* POST /jobs of the application server at time now, before its background
\* task runs
AppSubmitJob(request, now) ==
    /\ Cardinality(DOMAIN jobs) < MaxJobs
    /\ now <= MaxClock
    /\ LET id == NewId(jobs)
           reply == submit_job(request, id, now)
       IN /\ jobs' = IF reply.created = None THEN jobs
                     ELSE (id :> reply.created[1].job) @@ jobs
          /\ lastResp' = Resp("app_submit_job", None, None, reply.resp)
    /\ clock' = now
    /\ UNCHANGED <<storage_type, objects, lastOp, table, workers, lastRun, trigger>>

\* GET /jobs of the application server
AppListJobs ==
    /\ lastResp' = Resp("app_list_jobs", None, None, response(200, list_jobs(jobs)))
    /\ UNCHANGED <<storage_type, objects, lastOp, table, jobs, workers, clock, lastRun, trigger>>

\* process_job run by one invocation with nothing interleaved
ProcessAlone(job_id, env) ==
    /\ job_id \in DOMAIN table
    /\ table[job_id].status = PENDING
    /\ clock + 2 <= MaxClock
    /\ LET job == [item_to_job(table[job_id]) EXCEPT !.status = PROCESSING,
                                                    !.started_at = Some(clock + 1)]
           result == RunAgent(SyncVariant(job.job_type), job, env, "s3", objects)
           after == TakeResult(job, result)
       IN /\ objects' = result.objects
          /\ table' = update_job(update_job(table, job),
                                 [after EXCEPT !.completed_at = Some(clock + 2)])
    /\ clock' = clock + 2
    /\ UNCHANGED <<storage_type, lastOp, jobs, workers, lastRun, lastResp, trigger>>

InitLambda ==
    /\ storage_type = "s3"
    /\ objects = NoObjects
    /\ lastOp = NoOp
    /\ table = NoItems
    /\ jobs = NoItems
    /\ workers = [w \in Workers |-> Idle]
    /\ clock = 1
    /\ lastRun = NoRun
    /\ lastResp = NoResp
    /\ trigger = NoTrigger

NextLambda ==
    \/ \E body \in LambdaBodies, user_id \in {U_u} : ApiSubmitJob(body, user_id)
    \/ \E w \in Workers, key \in LambdaKeys : S3Event(w, key)
    \/ \E w \in Workers, job_id \in {UNKNOWN_ID} \cup JobIds : Invoke(w, job_id)
    \/ \E w \in Workers : Start(w)
    \/ \E w \in Workers, env \in LambdaEnvs : RunJob(w, env)
    \/ \E w \in Workers : Finish(w)
    \/ \E w \in Workers : StartUpdateRaises(w)
    \/ \E w \in Workers : FinishUpdateRaises(w)

SpecLambda == InitLambda /\ [][NextLambda]_vars

GetIds == {None} \cup {Some(i) : i \in {UNKNOWN_ID} \cup JobIds}
ApiBodies ==
    [job_type : {"summarize", "bogus"}, file_path : {None, Some(P_a_pdf)},
     project_id : {None}]
ApiExecuteBodies == [file_path : {Some(P_a_pdf)}, project_name : Names]

InitApi ==
    /\ storage_type = "s3"
    /\ objects = NoObjects
    /\ lastOp = NoOp
    /\ table = NoItems
    /\ jobs = NoItems
    /\ workers = NoItems
    /\ clock = 1
    /\ lastRun = NoRun
    /\ lastResp = NoResp
    /\ trigger = NoTrigger

NextApi ==
    \/ \E body \in ApiBodies, user_id \in Users : ApiSubmitJob(body, user_id)
    \/ \E body \in ApiExecuteBodies, user_id \in Users : ApiExecute(body, user_id)
    \/ \E job_id \in GetIds, user_id \in Users : ApiGetJob(job_id, user_id)
    \/ \E job_id \in JobIds, env \in LambdaEnvs : ProcessAlone(job_id, env)

SpecApi == InitApi /\ [][NextApi]_vars

\* the two servers are separate deployments, each with its own job store: a
\* behaviour is one of the Lambda API or one of the application server
NextListJobs ==
    \/ /\ jobs = NoItems
       /\ \/ \E body \in ApiBodies, user_id \in Users : ApiSubmitJob(body, user_id)
          \/ \E job_id \in JobIds : ProcessAlone(job_id, DefaultEnv)
          \/ \E user_id \in Users : ApiListJobs(user_id)
    \/ /\ table = NoItems
       /\ \/ \E request \in AppRequests, now \in {clock, clock + 1} :
                AppSubmitJob(request, now)
          \/ AppListJobs

SpecListJobs == InitApi /\ [][NextListJobs]_vars

-----------------------------------------------------------------------------
(* Properties of the job registry under concurrent invocations               *)

Rank(status) ==
    CASE status = PENDING -> 0
      [] status = PROCESSING -> 1
      [] OTHER -> 2

Terminal(status) == status \in {COMPLETED, FAILED}

\* C3: the status of a registry record never moves backwards and never leaves
\* a terminal state, so its history is a subsequence of pending, processing,
\* completed or of pending, processing, failed
C3_StatusNeverGoesBack ==
    [][\A id \in DOMAIN table :
          /\ Rank(table'[id].status) >= Rank(table[id].status)
          /\ Terminal(table[id].status) => table'[id].status = table[id].status]_vars

\* the invocations that have begun process_job for the job
StartedFor(id) ==
    {w \in DOMAIN workers :
        /\ workers[w].pc \in {"run", "finish", "done"}
        /\ workers[w].job # None
        /\ workers[w].job[1].id = id}

\* C4: of the invocations made for one job id, at most one begins process_job
C4_AtMostOneStarts == \A id \in DOMAIN table : Cardinality(StartedFor(id)) <= 1

\* the job records that exist: the registry's and each invocation's own copy
Records ==
    {item_to_job(table[id]) : id \in DOMAIN table}
        \cup {workers[w].job[1] : w \in {v \in DOMAIN workers : workers[v].job # None}}

\* C5: in every job record started_at <= completed_at when both are set, and
\* completed_at is unset while the status is pending
C5_TimesOrdered ==
    \A r \in Records :
        /\ (r.started_at # None /\ r.completed_at # None)
              => r.started_at[1] <= r.completed_at[1]
        /\ r.status = PENDING => r.completed_at = None

\* C6: once set, started_at and completed_at of a registry record keep their
\* value, and completed_at is set only in a terminal status
C6_TimesSetOnce ==
    /\ [](\A id \in DOMAIN table :
             table[id].completed_at # None => Terminal(table[id].status))
    /\ [][\A id \in DOMAIN table :
             /\ table[id].started_at # None => table'[id].started_at = table[id].started_at
             /\ table[id].completed_at # None
                   => table'[id].completed_at = table[id].completed_at]_vars

\* C7: a registry record carries output_path or result only when completed, an
\* error only when failed, and never an error together with a result
C7_OutcomeMatchesStatus ==
    \A id \in DOMAIN table :
        LET r == table[id]
            hasResult == r.output_path # None \/ r.result # EmptyDict
        IN /\ hasResult => r.status = COMPLETED
           /\ r.error # None => r.status = FAILED
           /\ ~(hasResult /\ r.error # None)

-----------------------------------------------------------------------------
(* Properties of the API                                                     *)

JobFields ==
    {"job_id", "job_type", "status", "raw_file_path", "output_path", "result", "error",
     "created_at", "completed_at"}

\* C10: get-job answers 404 for an id no job has, 403 without any field of the
\* record for a job another user created, and the record only for its creator
C10_OnlyOwnerReadsJob ==
    (lastResp.op = "get_job" /\ lastResp.job_id # None)
        => LET id == lastResp.job_id[1]
           IN /\ id \notin DOMAIN table => lastResp.statusCode = 404
              /\ (id \in DOMAIN table /\ table[id].user_id # lastResp.user_id)
                    => /\ lastResp.statusCode = 403
                       /\ DOMAIN lastResp.body \cap JobFields = {}
              /\ lastResp.statusCode = 200
                    => /\ id \in DOMAIN table
                       /\ table[id].user_id = lastResp.user_id
                       /\ lastResp.body.job_id = id
              /\ (id \in DOMAIN table /\ table[id].user_id = lastResp.user_id)
                    => lastResp.statusCode = 200

\* user v asks for a completed job that user u created
C10_Witness ==
    /\ lastResp.op = "get_job" /\ lastResp.job_id # None
    /\ lastResp.job_id[1] \in DOMAIN table
    /\ table[lastResp.job_id[1]].user_id = U_u
    /\ table[lastResp.job_id[1]].status = COMPLETED
    /\ lastResp.user_id = U_v
    /\ lastResp.statusCode = 403

-----------------------------------------------------------------------------
(* Trigger layer: triggers/base.py, webhook.py, s3_event.py, polling.py;    *)
(* the executor is the application server's POST /jobs                       *)

M_NOTES == <<"n", "o", "t", "e", "s">>
M_CREATE_PROJECT ==
    <<"c", "r", "e", "a", "t", "e", "_", "p", "r", "o", "j", "e", "c", "t">>
M_EXISTING_PROJECT ==
    <<"e", "x", "i", "s", "t", "i", "n", "g", "_", "p", "r", "o", "j", "e", "c", "t">>

\* what a call returns, or the exception it raises
Returned(value) == [raised |-> None, value |-> value]
Raises(text) == [raised |-> Some(text), value |-> None]

TriggerMode_from_path_default(path) ==
    LET parts == Split(Strip(path, "/"), "/")
    IN IF Len(parts) < 2 THEN Returned("NOTES")
       ELSE LET mode_folder == ReplaceSpaces(Lower(parts[2]))
            IN IF mode_folder = M_CREATE_PROJECT THEN Returned("CREATE_PROJECT")
               ELSE IF mode_folder = M_EXISTING_PROJECT THEN Returned("EXISTING_PROJECT")
               ELSE Returned("NOTES")

\* TriggerMode.from_path(path)
TriggerMode_from_path(path) ==
    LET parts == Split(Strip(path, "/"), "/")
    IN IF Len(parts) < 2 THEN Raises("Invalid path structure")
       ELSE LET mode_folder == ReplaceSpaces(Lower(parts[2]))
            IN IF mode_folder = M_NOTES THEN Returned("NOTES")
               ELSE IF mode_folder = M_CREATE_PROJECT THEN Returned("CREATE_PROJECT")
               ELSE IF mode_folder = M_EXISTING_PROJECT THEN Returned("EXISTING_PROJECT")
               ELSE Raises("Unknown mode folder")

\* TriggerMode.to_job_type()
to_job_type(mode) ==
    CASE mode = "NOTES" -> "summarize"
      [] mode = "CREATE_PROJECT" -> "create_project"
      [] mode = "EXISTING_PROJECT" -> "existing_project"

\* TriggerContext.from_path(path, project_id=...)
TriggerContext_from_path(path, project_id) ==
    LET mode == TriggerMode_from_path(path)
    IN IF mode.raised # None THEN mode
       ELSE Returned([raw_file_path |-> path, mode |-> mode.value,
                      project_id |-> project_id])

\* "a PDF in raw/": the test the three triggers share
RawPdf(path) == StartsWith(path, RAW_SLASH) /\ EndsWith(Lower(path), DOT_PDF)

\* WebhookTrigger.should_trigger(event)
WebhookTrigger_should_trigger(event) ==
    /\ event.file_path # <<>>
    /\ StartsWith(event.file_path, RAW_SLASH)
    /\ EndsWith(Lower(event.file_path), DOT_PDF)

\* WebhookTrigger.get_context(event)
WebhookTrigger_get_context(event) ==
    TriggerContext_from_path(event.file_path, event.project_id)

\* S3EventTrigger.should_trigger(event), for a trigger built with bucket_filter
S3EventTrigger_should_trigger(bucket_filter, event) ==
    \E i \in 1..Len(event.Records) :
        /\ ~(bucket_filter # None /\ event.Records[i].bucket # bucket_filter[1])
        /\ RawPdf(event.Records[i].key)

\* S3EventTrigger.get_context(event)
S3EventTrigger_get_context(event) ==
    LET found == {i \in 1..Len(event.Records) : RawPdf(event.Records[i].key)}
    IN IF found = {} THEN Raises("No valid S3 object found in event")
       ELSE TriggerContext_from_path(event.Records[Min(found)].key, None)

\* PollingTrigger.should_trigger(event), event a file path
PollingTrigger_should_trigger_unchecked(processed_files, event) ==
    StartsWith(event, RAW_SLASH) /\ EndsWith(Lower(event), DOT_PDF)

PollingTrigger_should_trigger(processed_files, event) ==
    /\ event \notin processed_files
    /\ ~(~StartsWith(event, RAW_SLASH) \/ ~EndsWith(Lower(event), DOT_PDF))

\* PollingTrigger.get_context(event)
PollingTrigger_get_context(event) == TriggerContext_from_path(event, None)

\* what process leaves behind: the exception or the value, the executor's
\* jobs, the payloads posted and whether a context was extracted
Outcome(raised, value, tbl, posts, extracted) ==
    [raised |-> raised, value |-> value, jobs |-> tbl, posts |-> posts,
     extracted |-> extracted]

\* the payload of Trigger.execute
Payload(context) ==
    [job_type |-> to_job_type(context.mode), raw_file_path |-> context.raw_file_path,
     project_id |-> IF TruthyStr(context.project_id) THEN context.project_id ELSE None]

\* Trigger.execute(context): POST {executor_url}/jobs, raise_for_status, json;
\* up tells whether the executor can be reached
Trigger_execute(context, tbl, up, now) ==
    LET payload == Payload(context)
        reply == submit_job(payload, NewId(tbl), now)
    IN IF ~up THEN Outcome(Some("ConnectError"), None, tbl, <<payload>>, TRUE)
       ELSE IF reply.resp.statusCode # 200
       THEN Outcome(Some("HTTPStatusError"), None, tbl, <<payload>>, TRUE)
       ELSE LET job == reply.created[1].job
            IN Outcome(None, Some(reply.resp.body), (job.id :> job) @@ tbl, <<payload>>,
                       TRUE)

Trigger_process_eager(should, context, tbl, up, now) ==
    IF context.raised # None THEN Outcome(context.raised, None, tbl, <<>>, TRUE)
    ELSE Trigger_execute(context.value, tbl, up, now)

\* Trigger.process(event), given should_trigger(event) and what
\* get_context(event) returns or raises
Trigger_process(should, context, tbl, up, now) ==
    IF ~should THEN Outcome(None, None, tbl, <<>>, FALSE)
    ELSE IF context.raised # None THEN Outcome(context.raised, None, tbl, <<>>, TRUE)
    ELSE Trigger_execute(context.value, tbl, up, now)

\* trigger_webhook(request): POST /trigger
trigger_webhook(event, tbl, up, now) ==
    IF ~WebhookTrigger_should_trigger(event)
    THEN [resp |-> response(400, Detail("Invalid trigger payload")),
          processed |-> 0,
          outcome |-> Outcome(None, None, tbl, <<>>, FALSE)]
    ELSE LET r == Trigger_process(WebhookTrigger_should_trigger(event),
                                  WebhookTrigger_get_context(event), tbl, up, now)
         IN [resp |-> IF r.raised = None
                      THEN response(200, [triggered |-> TRUE, job |-> r.value])
                      ELSE response(500, Detail(r.raised[1])),
             processed |-> 1,
             outcome |-> r]

T_raw_Notes_a_pdf == <<"r", "a", "w", "/", "N", "o", "t", "e", "s", "/", "a", ".", "p", "d", "f">>
T_raw_create_project_a_PDF ==
    <<"r", "a", "w", "/", "c", "r", "e", "a", "t", "e", " ", "p", "r", "o", "j", "e", "c", "t", "/", "a", ".", "P", "D", "F">>
T_raw_Existing_Project_a_pdf ==
    <<"r", "a", "w", "/", "E", "x", "i", "s", "t", "i", "n", "g", "_", "P", "r", "o", "j", "e", "c", "t", "/", "a", ".", "p", "d", "f">>
T_raw_Foo_a_pdf == <<"r", "a", "w", "/", "F", "o", "o", "/", "a", ".", "p", "d", "f">>
T_raw_Notes_a_txt == <<"r", "a", "w", "/", "N", "o", "t", "e", "s", "/", "a", ".", "t", "x", "t">>
T_x_notes_a_pdf == <<"x", "/", "n", "o", "t", "e", "s", "/", "a", ".", "p", "d", "f">>
T_x_Foo_a_pdf == <<"x", "/", "F", "o", "o", "/", "a", ".", "p", "d", "f">>
T_slash_raw_NOTES_slash == <<"/", "r", "a", "w", "/", "N", "O", "T", "E", "S", "/">>
T_empty == <<>>

TriggerPaths ==
    {T_raw_Notes_a_pdf, T_raw_create_project_a_PDF, T_raw_Existing_Project_a_pdf,
     T_raw_Foo_a_pdf, P_raw_a_pdf, T_raw_Notes_a_txt, T_x_notes_a_pdf, T_empty}
FromPathInputs ==
    TriggerPaths \cup {RAW_FOLDER, RAW_SLASH, T_x_Foo_a_pdf, T_slash_raw_NOTES_slash}
WebhookEvents == [file_path : TriggerPaths, project_id : ProjectIds]
Buckets == {"b", "c"}
S3Records == [bucket : Buckets, key : TriggerPaths \ {T_empty, T_x_notes_a_pdf}]
S3Events ==
    {[Records |-> rs] : rs \in {<<>>} \cup {<<r>> : r \in S3Records}
                                \cup {<<[bucket |-> "c", key |-> T_raw_Notes_a_pdf], r>> :
                                         r \in S3Records}}
BucketFilters == {None, Some("b")}

\* TriggerMode.from_path on a path
FromPath(path) ==
    /\ trigger' = [trigger EXCEPT !.last =
                      [op |-> "from_path", path |-> path,
                       result |-> TriggerMode_from_path(path)]]
    /\ UNCHANGED <<storage_type, objects, lastOp, table, jobs, workers, clock, lastRun,
                   lastResp>>

\* what one call of process did
Processed(op, event, should, r) ==
    [op |-> op, event |-> event, should |-> should, raised |-> r.raised,
     value |-> r.value, posts |-> r.posts, extracted |-> r.extracted,
     before |-> jobs]

\* POST /trigger
TriggerWebhook(event, up) ==
    /\ Cardinality(DOMAIN jobs) < MaxJobs
    /\ LET r == trigger_webhook(event, jobs, up, clock)
       IN /\ jobs' = r.outcome.jobs
          /\ trigger' = [trigger EXCEPT !.last =
                 [resp |-> r.resp, processed |-> r.processed]
                 @@ Processed("trigger_webhook", event,
                              WebhookTrigger_should_trigger(event), r.outcome)]
    /\ UNCHANGED <<storage_type, objects, lastOp, table, workers, clock, lastRun, lastResp>>

\* S3EventTrigger(bucket_filter).process(event)
S3EventTriggerProcess(bucket_filter, event, up) ==
    /\ Cardinality(DOMAIN jobs) < MaxJobs
    /\ LET should == S3EventTrigger_should_trigger(bucket_filter, event)
           r == Trigger_process(should, S3EventTrigger_get_context(event), jobs, up, clock)
       IN /\ jobs' = r.jobs
          /\ trigger' = [trigger EXCEPT !.last =
                 [bucket_filter |-> bucket_filter]
                 @@ Processed("S3EventTrigger.process", event, should, r)]
    /\ UNCHANGED <<storage_type, objects, lastOp, table, workers, clock, lastRun, lastResp>>

InitTriggers ==
    /\ storage_type = "s3"
    /\ objects = NoObjects
    /\ lastOp = NoOp
    /\ table = NoItems
    /\ jobs = NoItems
    /\ workers = [w \in Workers |-> Idle]
    /\ clock = 1
    /\ lastRun = NoRun
    /\ lastResp = NoResp
    /\ trigger = NoTrigger

NextTriggers ==
    \/ \E path \in FromPathInputs : FromPath(path)
    \/ \E event \in WebhookEvents, up \in BOOLEAN : TriggerWebhook(event, up)
    \/ \E bucket_filter \in BucketFilters, event \in S3Events, up \in BOOLEAN :
           S3EventTriggerProcess(bucket_filter, event, up)

SpecTriggers == InitTriggers /\ [][NextTriggers]_vars

-----------------------------------------------------------------------------
(* PollingTrigger: triggers/polling.py, one trigger over a store of files    *)

F_Notes == <<"N", "o", "t", "e", "s">>
F_Create_Project ==
    <<"C", "r", "e", "a", "t", "e", "_", "P", "r", "o", "j", "e", "c", "t">>
F_Existing_Project ==
    <<"E", "x", "i", "s", "t", "i", "n", "g", "_", "P", "r", "o", "j", "e", "c", "t">>

\* scan_once: mode_folders
mode_folders == <<F_Notes, F_Create_Project, F_Existing_Project>>

T_raw_Create_Project_a_pdf ==
    <<"r", "a", "w", "/", "C", "r", "e", "a", "t", "e", "_", "P", "r", "o", "j", "e", "c", "t", "/", "a", ".", "p", "d", "f">>

PollPaths ==
    {T_raw_Notes_a_pdf, T_raw_Notes_a_txt, T_raw_Create_Project_a_pdf,
     T_raw_Existing_Project_a_pdf}

\* what the listings of a tick do: each returns, or one of them raises
\* FileNotFoundError or something else
AllListed == [i \in DOMAIN mode_folders |-> "ok"]
Listings ==
    {AllListed} \cup {[AllListed EXCEPT ![i] = e] :
                         i \in DOMAIN mode_folders, e \in {"FileNotFoundError", "error"}}

\* the executor is unreachable for these paths' submissions
Downs == {{}, {T_raw_Notes_a_pdf}, PollPaths}

NoScan(processed_files, tbl) ==
    [processed_files |-> processed_files, jobs |-> tbl, triggered |-> <<>>,
     posts |-> <<>>, results |-> <<>>, raised |-> None]

\* scan_once: for f in files; an exception of process leaves the loops
RECURSIVE ScanFiles(_, _, _, _)
ScanFiles(files, st, down, now) ==
    IF files = <<>> THEN st
    ELSE LET f == Head(files)
         IN IF ~EndsWith(Lower(f), DOT_PDF) THEN ScanFiles(Tail(files), st, down, now)
            ELSE LET r == Trigger_process(
                              PollingTrigger_should_trigger(st.processed_files, f),
                              PollingTrigger_get_context(f), st.jobs, f \notin down, now)
                     called == [st EXCEPT !.triggered = Append(@, f),
                                          !.posts = @ \o r.posts]
                 IN IF r.raised # None THEN [called EXCEPT !.raised = r.raised]
                    ELSE IF r.value = None THEN ScanFiles(Tail(files), called, down, now)
                    ELSE ScanFiles(Tail(files),
                                   [called EXCEPT !.jobs = r.jobs,
                                                  !.processed_files = @ \cup {f},
                                                  !.results = Append(@, r.value[1])],
                                   down, now)

\* scan_once: for folder in mode_folders, from folder i on
RECURSIVE ScanFolders(_, _, _, _, _, _)
ScanFolders(i, st, listing, orders, down, now) ==
    IF i > Len(mode_folders) \/ st.raised # None THEN st
    ELSE IF listing[i] = "FileNotFoundError"
    THEN ScanFolders(i + 1, st, listing, orders, down, now)
    ELSE IF listing[i] = "error" THEN [st EXCEPT !.raised = Some("listing failed")]
    ELSE ScanFolders(i + 1, ScanFiles(orders[i], st, down, now), listing, orders, down,
                     now)

\* a file appears in the store
PutFile(path) ==
    /\ path \notin DOMAIN objects
    /\ objects' = With(objects, path, "v1")
    /\ UNCHANGED <<storage_type, lastOp, table, jobs, workers, clock, lastRun, lastResp,
                   trigger>>

\* the files list_files returns for mode folder i
Listed(i) == list_files(objects, RAW_SLASH \o mode_folders[i])

\* one turn of the loop of start: scan_once, any exception printed
ScanTick(listing, down) ==
    /\ Cardinality(DOMAIN jobs) < MaxJobs
    /\ \E o1 \in Orders(Listed(1)), o2 \in Orders(Listed(2)), o3 \in Orders(Listed(3)) :
          LET st == ScanFolders(1, NoScan(trigger.processed_files, jobs), listing,
                                <<o1, o2, o3>>, down, clock)
          IN /\ jobs' = st.jobs
             /\ trigger' = [processed_files |-> st.processed_files,
                            last |-> [op |-> "scan_once", listing |-> listing,
                                      processed_before |-> trigger.processed_files,
                                      before |-> jobs, triggered |-> st.triggered,
                                      posts |-> st.posts, results |-> st.results,
                                      raised |-> st.raised]]
    /\ UNCHANGED <<storage_type, objects, lastOp, table, workers, clock, lastRun, lastResp>>

InitPolling ==
    /\ storage_type = "s3"
    /\ objects = NoObjects
    /\ lastOp = NoOp
    /\ table = NoItems
    /\ jobs = NoItems
    /\ workers = [w \in Workers |-> Idle]
    /\ clock = 1
    /\ lastRun = NoRun
    /\ lastResp = NoResp
    /\ trigger = NoTrigger

NextPolling ==
    \/ \E path \in PollPaths : PutFile(path)
    \/ \E listing \in Listings, down \in Downs : ScanTick(listing, down)

SpecPolling == InitPolling /\ [][NextPolling]_vars

\* the request a submit-job handler is documented to accept
ValidSubmit(req) ==
    /\ req.job_type \in JobTypes
    /\ req.file_path # None
    /\ StartsWith(req.file_path[1], RAW_SLASH)
    /\ req.job_type = "existing_project" => TruthyStr(req.project_id)

\* C11: submit-job answers 200 exactly for a request with a job type of the
\* enumeration, a document path under raw/ and a project id when the type is
\* existing_project; then it creates one pending record and returns its id,
\* and otherwise it creates no record and starts no processing
C11_SubmitAcceptsIffValid ==
    [][(lastResp' # lastResp /\ lastResp'.op = "submit_job")
          => LET created == DOMAIN table' \ DOMAIN table
             IN /\ lastResp'.statusCode = 200 <=> ValidSubmit(lastResp'.request)
                /\ lastResp'.statusCode = 200
                      => /\ Cardinality(created) = 1
                         /\ \A id \in created :
                               /\ table'[id].status = PENDING
                               /\ lastResp'.body.job_id = id
                               /\ lastResp'.body.status = PENDING
                /\ lastResp'.statusCode # 200 => (table' = table /\ workers' = workers)]_vars

C13_UpdateFailureContained ==
    \A w \in Workers : workers[w].pc # "raised"

\* a process call of a trigger is the last thing that happened
ProcessCalled == trigger.last.op \in {"trigger_webhook", "S3EventTrigger.process"}

\* get_context(event) of the trigger of the last call
LastContext ==
    IF trigger.last.op = "trigger_webhook"
    THEN WebhookTrigger_get_context(trigger.last.event)
    ELSE S3EventTrigger_get_context(trigger.last.event)

\* nothing was extracted or submitted
Skipped ==
    /\ ~trigger.last.extracted
    /\ trigger.last.posts = <<>>
    /\ trigger.last.value = None
    /\ trigger.last.raised = None
    /\ jobs = trigger.last.before

\* C16 as stated: process submits exactly when should_trigger is true, and
\* then makes exactly one submission built from get_context(event)
C16_SubmitsIffShouldTrigger ==
    ProcessCalled
        => /\ ~trigger.last.should => Skipped
           /\ trigger.last.should
                 => /\ LastContext.raised = None
                    /\ Len(trigger.last.posts) = 1
                    /\ trigger.last.posts[1] = Payload(LastContext.value)

\* C16: process submits only when should_trigger is true; when it is true
\* the context is extracted, and either get_context raises and process raises
\* the same error without a submission, or exactly one submission is made,
\* built from the context
C16_SubmitsIffShouldAndContext ==
    ProcessCalled
        => /\ ~trigger.last.should => Skipped
           /\ trigger.last.should
                 => /\ trigger.last.extracted
                    /\ LastContext.raised # None
                          => /\ trigger.last.posts = <<>>
                             /\ trigger.last.raised = LastContext.raised
                             /\ jobs = trigger.last.before
                    /\ LastContext.raised = None
                          => /\ Len(trigger.last.posts) = 1
                             /\ trigger.last.posts[1] = Payload(LastContext.value)

\* an S3 event passes should_trigger and its one submission creates a job
C16_Witness ==
    /\ trigger.last.op = "S3EventTrigger.process"
    /\ trigger.last.should
    /\ Len(trigger.last.posts) = 1
    /\ trigger.last.value # None
    /\ DOMAIN jobs # DOMAIN trigger.last.before

\* the second segment of a path, normalised as the mode lookup does
Segments(path) == Split(Strip(path, "/"), "/")
ModeKey(path) == ReplaceSpaces(Lower(Segments(path)[2]))

\* C17: from_path decides by the second segment alone, lower-cased and with
\* spaces as underscores, through the table notes / create_project /
\* existing_project, and raises for fewer than two segments or any other
\* second segment
C17_FromPathBySecondSegment ==
    trigger.last.op = "from_path"
        => LET path == trigger.last.path
               result == trigger.last.result
               mode == IF result.raised = None THEN result.value ELSE "raised"
           IN /\ mode = IF Len(Segments(path)) < 2 THEN "raised"
                        ELSE CASE ModeKey(path) = M_NOTES -> "NOTES"
                               [] ModeKey(path) = M_CREATE_PROJECT -> "CREATE_PROJECT"
                               [] ModeKey(path) = M_EXISTING_PROJECT -> "EXISTING_PROJECT"
                               [] OTHER -> "raised"
              /\ \A other \in FromPathInputs :
                    (/\ Len(Segments(path)) >= 2
                     /\ Len(Segments(other)) >= 2
                     /\ Segments(other)[2] = Segments(path)[2])
                        => TriggerMode_from_path(other) = result

\* a folder written with a space, in a path with an upper-case extension,
\* resolves to its mode
C17_Witness ==
    /\ trigger.last.op = "from_path"
    /\ trigger.last.path = T_raw_create_project_a_PDF
    /\ trigger.last.result = Returned("CREATE_PROJECT")

\* the path validation of the trigger layer: a PDF under raw/ whose mode
\* segment resolves
ValidTriggerPath(path) ==
    /\ path # <<>>
    /\ RawPdf(path)
    /\ TriggerMode_from_path(path).raised = None

\* C18: the webhook endpoint answers a 400-class rejection and submits nothing
\* for a payload whose path fails the validation, and otherwise performs
\* process once and returns its job submission
C18_WebhookRejectsInvalid ==
    trigger.last.op = "trigger_webhook"
        => /\ ~ValidTriggerPath(trigger.last.event.file_path)
                 => /\ trigger.last.resp.statusCode \in 400..499
                    /\ trigger.last.posts = <<>>
                    /\ jobs = trigger.last.before
           /\ ValidTriggerPath(trigger.last.event.file_path)
                 => /\ trigger.last.processed = 1
                    /\ trigger.last.raised = None
                          => trigger.last.resp
                                = response(200, [triggered |-> TRUE,
                                                 job |-> trigger.last.value])

\* C19: the S3 event handler creates a job only for a key under raw/ that
\* ends in .pdf
C19_EventJobOnlyForRawPdf ==
    [][\A w \in Workers :
          (/\ workers[w].pc = "idle"
           /\ workers'[w].pc = "start"
           /\ DOMAIN table' # DOMAIN table)
              => \A id \in DOMAIN table' \ DOMAIN table :
                    RawPdf(table'[id].raw_file_path)]_vars

Range(seq) == {seq[i] : i \in DOMAIN seq}

\* the jobs the executor holds for a path
JobsFor(path) == {id \in DOMAIN jobs : jobs[id].raw_file_path = path}

C15_TickTriggersEveryNewFile ==
    trigger.last.op = "scan_once"
        => \A i \in DOMAIN mode_folders :
              trigger.last.listing[i] = "ok"
                  => \A f \in Listed(i) :
                        (EndsWith(Lower(f), DOT_PDF)
                            /\ f \notin trigger.last.processed_before)
                            => f \in Range(trigger.last.triggered)

\* a Create Project run got a structure response that is no JSON object, and
\* nothing else failed
UnparsableStructure(variants) ==
    /\ Ran
    /\ lastRun.variant \in variants
    /\ ParseFailed
    /\ ~(FetchFailed \/ RasterFailed \/ CompletionFailed \/ WriteFailed)

\* the run carried on with the default skeleton
DefaultSkeleton ==
    LET base_path == PROJECTS \o SLASH \o NEW_PROJECT
    IN /\ lastRun.result.success
       /\ lastRun.result.data.project_path = Some(base_path)
       /\ Range(WrittenPaths(lastRun.result.events))
             = {base_path \o SLASH \o SRC_MAIN, base_path \o SLASH \o README}
       /\ \A k \in {base_path \o SLASH \o SRC_MAIN, base_path \o SLASH \o README} :
             k \in WrittenKeys \/ k \in DOMAIN lastRun.before

\* C20: a Create Project run whose structure response has no fenced block and
\* is not JSON carries on with the default skeleton new-project (src/main.py
\* and README.md), writes it under projects/new-project/ and succeeds
C20_DefaultSkeletonOnUnparsable ==
    UnparsableStructure({"CreateProjectAgent", "CreateProjectAgentSync"}) => DefaultSkeleton

\* the run wrote nothing: no write call, the store as it was
NothingWritten ==
    /\ CountOp(lastRun.result.events, "write") = 0
    /\ lastRun.result.objects = lastRun.before
    /\ objects = lastRun.before

\* C21: an Execute run whose response is not JSON fails, with the 'response
\* truncated' error when the stop reason is max_tokens and with the JSON parse
\* error otherwise, the two being different, and writes no file
C21_TruncatedOrParseError ==
    (Ran /\ lastRun.variant = "ExecuteAgentSync" /\ StrictParseFailed)
        => /\ ~lastRun.result.success
           /\ lastRun.outcome.status = FAILED
           /\ lastRun.env.stop = "max_tokens" => lastRun.outcome.error = Some(E_TRUNCATED)
           /\ lastRun.env.stop # "max_tokens" => lastRun.outcome.error = Some(E_JSON)
           /\ E_TRUNCATED # E_JSON
           /\ NothingWritten

\* a truncated response that does not parse
C21_Witness ==
    /\ Ran /\ lastRun.variant = "ExecuteAgentSync" /\ StrictParseFailed
    /\ lastRun.env.stop = "max_tokens"
    /\ lastRun.result.error = Some(E_TRUNCATED)

\* what run returns tells of the parse failure: a failed result with an error,
\* or a payload with the parse-error flag and the raw text
ParseFailureSurfaced ==
    \/ ~lastRun.result.success /\ TruthyText(lastRun.result.error)
    \/ /\ lastRun.result.success
       /\ {"error", "raw"} \subseteq DOMAIN lastRun.result.data

\* C22: a Modify-Existing run whose generate-changes response is not JSON
\* returns (it does not raise) a result that carries the parse failure, and
\* writes no file
C22_ParseFailureSurfaced ==
    (Ran /\ lastRun.variant = "ExistingProjectAgent" /\ Made("parse_lenient")
         /\ lastRun.env.parse # "object")
        => /\ ParseFailureSurfaced
           /\ NothingWritten

\* the listing of the project location the run made
ListingMade ==
    SelectSeq(lastRun.result.events, LAMBDA e : e.op \in {"list", "list_ctx"})

\* a Modify-Existing run with a project reference found nothing at the
\* project location, and no other call can fail
NothingAtProject ==
    /\ Ran
    /\ lastRun.variant \in {"ExistingProjectAgent", "ExistingProjectAgentSync"}
    /\ TruthyStr(lastRun.job.project_id)
    /\ ListingMade # <<>>
    /\ \/ lastRun.env.list # "ok"
       \/ list_files(lastRun.before, ListingMade[1].path) = {}
    /\ lastRun.env.fetch = "ok" /\ lastRun.env.pages >= 1
    /\ lastRun.env.llmFailAt = 0 /\ lastRun.env.writeFailAt = 0
    /\ lastRun.env.parse = "object"

\* C23: a Modify-Existing run that finds nothing at the project location, the
\* listing failing or returning no file, goes on with a context marked
\* exists = false, makes its plan and generate calls and succeeds
C23_MissingProjectStillSucceeds ==
    NothingAtProject
        => /\ lastRun.result.success
           /\ CountOp(lastRun.result.events, "complete") >= 1
           /\ ListingMade[1].op = "list_ctx" => ListingMade[1].content = "exists = False"

\* the write calls of the run, in order
Writes == SelectSeq(lastRun.result.events, LAMBDA e : e.op = "write")

\* a Modify-Existing run of the application server reached its apply phase
\* with a parsed change list
ApplyPhase ==
    /\ Ran /\ lastRun.variant = "ExistingProjectAgent"
    /\ Made("parse_lenient") /\ lastRun.env.parse = "object"

\* C24: in the apply phase each create or modify entry causes one write of its
\* content to projects/{project_id}/{path} and is reported with its action;
\* a delete entry causes no write and no delete and is reported as
\* delete_skipped
C24_ApplyPhaseEffects ==
    ApplyPhase
        => LET changes == lastRun.env.files
               root == PROJECTS \o SLASH \o lastRun.job.project_id[1]
               puts == SelectSeq(changes, LAMBDA c : c.action \in {"create", "modify"})
           IN /\ Len(Writes) <= Len(puts)
              /\ \A i \in 1..Len(Writes) :
                    /\ Writes[i].path = root \o SLASH \o puts[i].path
                    /\ Writes[i].content = puts[i].content
              /\ CountOp(lastRun.result.events, "delete") = 0
              /\ DOMAIN lastRun.before \subseteq DOMAIN objects
              /\ Cardinality(WrittenKeys) <= Len(Writes)
              /\ lastRun.result.success
                    => /\ Len(Writes) = Len(puts)
                       /\ Len(lastRun.result.data.changes_applied) = Len(changes)
                       /\ \A i \in 1..Len(changes) :
                             lastRun.result.data.changes_applied[i]
                                = [path |-> root \o SLASH \o changes[i].path,
                                   action |-> IF changes[i].action = "delete"
                                              THEN "delete_skipped"
                                              ELSE changes[i].action]

\* a change list with a create and a delete has been applied
C24_Witness ==
    /\ ApplyPhase /\ lastRun.result.success
    /\ lastRun.env.files = <<F_main, F_old>>
    /\ Len(Writes) = 1
    /\ Len(lastRun.result.data.changes_applied) = 2

\* a Modify-Existing run on a job without a project reference
NoProjectReference ==
    /\ Ran
    /\ lastRun.variant \in {"ExistingProjectAgent", "ExistingProjectAgentSync"}
    /\ ~TruthyStr(lastRun.job.project_id)

\* C25: a Modify-Existing job without a project reference fails at once with
\* a 'project_id is required' error, before any fetch, listing, completion
\* call or write
C25_ProjectIdRequiredFirst ==
    NoProjectReference
        => /\ ~lastRun.result.success
           /\ lastRun.result.error \in {Some(E_PROJECT_ID), Some(E_PROJECT_ID_MODE)}
           /\ lastRun.outcome.status = FAILED
           /\ \A i \in DOMAIN lastRun.result.events :
                 lastRun.result.events[i].op = "require_project_id"
           /\ NothingWritten

\* the Lambda variant is run on a job whose project_id is the empty string
C25_Witness ==
    /\ NoProjectReference
    /\ lastRun.variant = "ExistingProjectAgentSync"
    /\ lastRun.job.project_id = Some(<<>>)
    /\ lastRun.result.error = Some(E_PROJECT_ID)

\* a Summarize run on a document with at least one page, no call failing
SummarizeRun ==
    /\ Ran
    /\ lastRun.variant \in {"SummarizeAgent", "SummarizeAgentSync"}
    /\ lastRun.env.fetch = "ok" /\ lastRun.env.pages >= 1
    /\ lastRun.env.llmFailAt = 0 /\ lastRun.env.writeFailAt = 0

\* the input path with its first raw/ replaced by notes/ and its extension by .md
NotesPath(path) ==
    LET moved == Replace1(path, RAW_SLASH, NOTES_SLASH)
        dot == Max(Occurrences(moved, <<".">>))
    IN SubSeq(moved, 1, dot - 1) \o DOT_MD

\* the input path with its extension replaced by _summary.md
SummaryPath(path) ==
    SubSeq(path, 1, Max(Occurrences(path, <<".">>)) - 1) \o SUMMARY_MD

\* one completion call, one write, to the given path, reported with the pages
SummarizedTo(output_path) ==
    /\ lastRun.result.success
    /\ CountOp(lastRun.result.events, "complete") = 1
    /\ Len(Writes) = 1
    /\ Writes[1].path = output_path
    /\ lastRun.result.data.output_path = Some(output_path)
    /\ lastRun.result.data.pages_processed = lastRun.env.pages
    /\ lastRun.outcome.output_path = Some(output_path)

RECURSIVE StoreAfter(_, _, _)
StoreAfter(b, objs, writes) ==
    IF writes = <<>> THEN objs
    ELSE StoreAfter(b, write_file(b, objs, Head(writes).path, Head(writes).content).objects,
                    Tail(writes))

\* the writes of the run that succeeded: all of them, but the last call when
\* it is the write that failed
WritesDone ==
    LET events == lastRun.result.events
    IN IF events # <<>> /\ events[Len(events)].op = "write" /\ ~lastRun.result.success
       THEN SubSeq(Writes, 1, Len(Writes) - 1)
       ELSE Writes

\* a Create Project run met a failure
CreateProjectFailure ==
    /\ Ran
    /\ lastRun.variant \in {"CreateProjectAgent", "CreateProjectAgentSync"}
    /\ HardFailure

\* C27: a Create Project run that meets a failure after k files were written
\* returns a failed result, leaves those k files in the store, and makes no
\* completion call and no write after the failure
C27_NoRollbackOnFailure ==
    CreateProjectFailure
        => LET events == lastRun.result.events
               last == events[Len(events)]
           IN /\ ~lastRun.result.success
              /\ TruthyText(lastRun.result.error)
              /\ lastRun.outcome.status = FAILED
              /\ objects = StoreAfter(storage_type, lastRun.before, WritesDone)
              /\ \A i \in DOMAIN WritesDone :
                    \E k \in DOMAIN objects : EndsWith(k, WritesDone[i].path)
              /\ CountOp(events, "delete") = 0
              /\ CompletionFailed
                    => /\ last.op = "complete"
                       /\ CountOp(events, "complete") = lastRun.env.llmFailAt
              /\ WriteFailed
                    => /\ last.op = "write"
                       /\ CountOp(events, "write") = lastRun.env.writeFailAt

\* the Lambda variant fails in a completion call after it has written a file
C27_Witness ==
    /\ CreateProjectFailure
    /\ lastRun.variant = "CreateProjectAgentSync"
    /\ CompletionFailed
    /\ Len(WritesDone) >= 1
    /\ WrittenKeys # {}

\* an Execute run whose response parsed and that met no failure afterwards
ExecuteParsed ==
    /\ Ran /\ lastRun.variant = "ExecuteAgentSync"
    /\ Made("parse") /\ lastRun.env.parse = "object"
    /\ lastRun.result.success

\* {user_id}/project_files/{project_name} of the job of the last run
ExecuteRoot ==
    LET job == lastRun.job
    IN user_id_of(job.raw_file_path) \o SLASH \o PROJECT_FILES \o SLASH
       \o ReplaceSpaces(IF TruthyStr(job.project_name) THEN job.project_name[1] ELSE PROJECT)

\* C28: an Execute run whose response parses writes every entry of the files
\* list to {user_id}/project_files/{project_name}/{path}, one write per entry,
\* and reports one created file per entry
C28_ExecuteWritesEveryEntry ==
    ExecuteParsed
        => LET files == lastRun.env.files
           IN /\ Len(Writes) = Len(files)
              /\ \A i \in 1..Len(files) :
                    /\ i <= Len(Writes)
                    /\ Writes[i].path = ExecuteRoot \o SLASH \o files[i].path
                    /\ Writes[i].content = files[i].content
              /\ Len(lastRun.result.data.files) = Len(files)

-----------------------------------------------------------------------------
(* The registry record under update_job calls with any field values          *)

\* the Job objects a caller can pass for the record with id 1
UpdateJobs ==
    {[Job(1, "summarize", P_raw_a_pdf, None, None, 1)
        EXCEPT !.status = st, !.started_at = sa, !.completed_at = ca,
               !.output_path = op, !.result = rs, !.error = er] :
        st \in {PROCESSING, COMPLETED}, sa \in {None, Some(2)}, ca \in {None, Some(3)},
        op \in {None, Some(<<>>), Some(P_notes_x)},
        rs \in {EmptyDict, Some(Data(Some(P_notes_x), None, 1, <<>>))},
        er \in {None, Some(""), Some(E_JSON)}}

\* job_store.update_job(job)
UpdateJob(job) ==
    /\ job.id \in DOMAIN table
    /\ table' = update_job(table, job)
    /\ lastOp' = [op |-> "update_job", job |-> job]
    /\ UNCHANGED <<storage_type, objects, jobs, workers, clock, lastRun, lastResp, trigger>>

InitRegistry ==
    /\ storage_type = "s3"
    /\ objects = NoObjects
    /\ lastOp = NoOp
    /\ table = create_job(NoItems, Job(1, "summarize", P_raw_a_pdf, None, None, 1), U_u)
    /\ jobs = NoItems
    /\ workers = NoItems
    /\ clock = 1
    /\ lastRun = NoRun
    /\ lastResp = NoResp
    /\ trigger = NoTrigger

NextRegistry == \E job \in UpdateJobs : UpdateJob(job)

SpecRegistry == InitRegistry /\ [][NextRegistry]_vars

\* Python truthiness of the stored or passed value of a mergeable field
FieldSet(r, f) ==
    CASE f = "output_path" -> TruthyStr(r.output_path)
      [] f = "error" -> TruthyText(r.error)
      [] f = "result" -> r.result # EmptyDict
      [] OTHER -> Truthy(r[f])
MergeFields == {"started_at", "completed_at", "output_path", "result", "error"}

\* C29: update_job always overwrites status, overwrites each of started_at,
\* completed_at, output_path, result and error exactly when the passed job has
\* a non-empty value for it and leaves it unchanged otherwise, so no call
\* empties a field the record has set
C29_UpdateIsPartialMerge ==
    [][(lastOp'.op = "update_job")
          => LET job == lastOp'.job
                 old == table[job.id]
                 new == table'[job.id]
             IN /\ DOMAIN table' = DOMAIN table
                /\ new.status = job.status
                /\ \A f \in MergeFields :
                      /\ new[f] = IF FieldSet(job, f) THEN job[f] ELSE old[f]
                      /\ FieldSet(old, f) => FieldSet(new, f)
                /\ \A f \in DOMAIN old \ (MergeFields \cup {"status"}) : new[f] = old[f]]_vars

\* a call that passed no error and no output path on a record that has both
C29_Witness ==
    /\ lastOp.op = "update_job"
    /\ lastOp.job.error = None /\ lastOp.job.output_path = Some(<<>>)
    /\ lastOp.job.status = COMPLETED
    /\ table[1].error = Some(E_JSON) /\ table[1].output_path = Some(P_notes_x)
    /\ table[1].status = COMPLETED

\* the fields of a listed record
ListFields == {"job_id", "job_type", "status", "created_at"}

\* a sequence of listed records: abbreviated, of different jobs, newest first
ListingOf(body, store) ==
    /\ \A i \in DOMAIN body :
          /\ DOMAIN body[i] = ListFields
          /\ body[i].job_id \in DOMAIN store
          /\ body[i].job_type = store[body[i].job_id].job_type
          /\ body[i].created_at = store[body[i].job_id].created_at
    /\ \A i, j \in DOMAIN body :
          /\ i < j => body[i].created_at >= body[j].created_at
          /\ i # j => body[i].job_id # body[j].job_id

-----------------------------------------------------------------------------
(* The fence stripping of CreateProjectAgent._generate_files                 *)

\* the grave accent (U+0060), which a string of this language cannot hold
BACKTICK == "~"
FENCE == <<BACKTICK, BACKTICK, BACKTICK>>
NEWLINE == <<"\n">>

\* "\n".join(lines)
JoinLines(lines) ==
    IF lines = <<>> THEN <<>>
    ELSE Flatten([i \in 1..(2 * Len(lines) - 1) |->
                     IF i % 2 = 1 THEN lines[(i + 1) \div 2] ELSE NEWLINE])

strip_fences_unchecked(content) ==
    LET lines == Split(content, "\n")
    IN IF Strip(lines[Len(lines)], " ") = FENCE
       THEN JoinLines(SubSeq(lines, 2, Len(lines) - 1))
       ELSE JoinLines(SubSeq(lines, 2, Len(lines)))

\* _generate_files: if content starts with the fence, drop the first line, and
\* the last one when it is a fence
strip_fences(content) ==
    IF StartsWith(content, FENCE)
    THEN LET lines == Split(content, "\n")
         IN IF Strip(lines[Len(lines)], " ") = FENCE
            THEN JoinLines(SubSeq(lines, 2, Len(lines) - 1))
            ELSE JoinLines(SubSeq(lines, 2, Len(lines)))
    ELSE content

\* the lines a file response is made of
MaxLines == 4
ResponseLines ==
    {FENCE, FENCE \o <<"p">>, FENCE \o <<" ">>, <<" ">> \o FENCE, <<"x">>, <<"y">>, <<>>}
Responses ==
    {JoinLines(ls) : ls \in UNION {[1..n -> ResponseLines] : n \in 1..MaxLines}}

\* message.content[0].text of one per-file completion
ReceiveFile(content) ==
    /\ lastOp.op = "none"
    /\ lastOp' = [op |-> "response", response |-> content, times |-> 0,
                  once |-> content, content |-> content]
    /\ UNCHANGED <<storage_type, objects, table, jobs, workers, clock, lastRun, lastResp, trigger>>

\* the stripping applied to the content, and applied again to its result
StripFences ==
    /\ lastOp.op = "response" /\ lastOp.times < 2
    /\ LET content == strip_fences(lastOp.content)
       IN lastOp' = [lastOp EXCEPT !.times = @ + 1, !.content = content,
                                   !.once = IF lastOp.times = 0 THEN content ELSE @]
    /\ UNCHANGED <<storage_type, objects, table, jobs, workers, clock, lastRun, lastResp, trigger>>

NextFences ==
    \/ \E content \in Responses : ReceiveFile(content)
    \/ StripFences

SpecFences == InitApi /\ [][NextFences]_vars

\* the lines of a response wrapped in one fence pair: an opening fence line,
\* a closing fence line, and no fence marker in between
OneFencePair(lines) ==
    /\ Len(lines) >= 2
    /\ StartsWith(lines[1], FENCE)
    /\ Strip(lines[Len(lines)], " ") = FENCE
    /\ \A i \in 2..(Len(lines) - 1) : ~Contains(lines[i], FENCE)

\* C31: for a response wrapped in one matching fence pair the stripping
\* returns the lines between the fences, and applying it to that result
\* returns the same content
C31_StripIdempotentOnFenced ==
    (lastOp.op = "response" /\ lastOp.times = 2
        /\ OneFencePair(Split(lastOp.response, "\n")))
        => LET lines == Split(lastOp.response, "\n")
           IN /\ lastOp.once = JoinLines(SubSeq(lines, 2, Len(lines) - 1))
              /\ lastOp.content = lastOp.once

\* a fenced response of two code lines, stripped twice
C31_Witness ==
    /\ lastOp.op = "response" /\ lastOp.times = 2
    /\ lastOp.response = JoinLines(<<FENCE \o <<"p">>, <<"x">>, <<"y">>, FENCE>>)
    /\ lastOp.content = JoinLines(<<<<"x">>, <<"y">>>>)

\* a Create Project run
CreateProjectRun ==
    /\ Ran
    /\ lastRun.variant \in {"CreateProjectAgent", "CreateProjectAgentSync"}

\* the places of the calls of one kind in the run
Places(op) ==
    {i \in DOMAIN lastRun.result.events : lastRun.result.events[i].op = op}

\* C32: in a Create Project run the requirements call, the structure call and
\* the per-file completion calls all come before the first storage write: no
\* completion call follows a write, and a run that wrote its files made a
\* requirements call, a structure call and one call per written file
C32_PhasesInOrder ==
    CreateProjectRun
        => /\ \A w \in Places("write"), c \in Places("complete") : c < w
           /\ (lastRun.result.success /\ Places("write") # {})
                 => Cardinality(Places("complete")) >= 2 + Cardinality(Places("write"))

\* C33: handle_job_invocation returns 'skipped' for a job whose status is
\* processing, completed or failed and an error for an id no job has; in both
\* cases it changes neither the registry nor the storage, and the invocation
\* does nothing after it has returned
C33_NonPendingInvocationSkipped ==
    [][\A w \in Workers :
          /\ \A job_id \in {UNKNOWN_ID} \cup JobIds :
                Invoke(w, job_id)
                   => /\ job_id \notin DOMAIN table
                         => /\ workers'[w] = Done("error")
                            /\ table' = table /\ objects' = objects
                      /\ (job_id \in DOMAIN table
                            /\ table[job_id].status \in {PROCESSING, COMPLETED, FAILED})
                         => /\ workers'[w] = Done("skipped")
                            /\ table' = table /\ objects' = objects
          /\ workers[w].pc = "done" => workers'[w] = workers[w]]_vars

\* an invocation was skipped for the one job of the registry, which another
\* invocation had completed
C33_Witness ==
    /\ \E w \in Workers : workers[w] = Done("skipped")
    /\ DOMAIN table = {1}
    /\ table[1].status = COMPLETED

\* the record passes the test of should_trigger
Accepted(bucket_filter, record) ==
    /\ ~(bucket_filter # None /\ record.bucket # bucket_filter[1])
    /\ RawPdf(record.key)

\* S3EventTrigger.process returned a job submission for the event
S3EventSubmitted ==
    /\ trigger.last.op = "S3EventTrigger.process"
    /\ trigger.last.should /\ trigger.last.raised = None

\* C34: an event with k accepted records gives k jobs, one per accepted
\* record
C34_JobPerAcceptedRecord ==
    S3EventSubmitted
        => LET records == trigger.last.event.Records
               accepted == {i \in DOMAIN records :
                               Accepted(trigger.last.bucket_filter, records[i])}
           IN Cardinality(DOMAIN jobs \ DOMAIN trigger.last.before)
                 = Cardinality(accepted)

\* C38: with a bucket filter, the path of the submitted job is the key of a
\* record that should_trigger accepted
C38_ContextFromAcceptedRecord ==
    (S3EventSubmitted /\ trigger.last.bucket_filter # None)
        => LET records == trigger.last.event.Records
           IN \A j \in DOMAIN jobs \ DOMAIN trigger.last.before :
                 \E i \in DOMAIN records :
                    /\ Accepted(trigger.last.bucket_filter, records[i])
                    /\ records[i].key = jobs[j].raw_file_path

-----------------------------------------------------------------------------
(* The first accepted job under invocations that are always carried on      *)

\* the steps of one invocation made for job 1: handle_job_invocation, then
\* process_job statement by statement
Processing(w) ==
    \/ 1 \in DOMAIN table /\ Invoke(w, 1)
    \/ Start(w)
    \/ \E env \in LambdaEnvs : RunJob(w, env)
    \/ Finish(w)

NextLambdaFair ==
    \/ \E body \in LambdaBodies : ApiSubmitJob(body, U_u)
    \/ \E w \in Workers : Processing(w)
    \/ \E w \in Workers : StartUpdateRaises(w)
    \/ \E w \in Workers : FinishUpdateRaises(w)

\* an invocation that can take its next step takes it, or ends by an
\* exception
SpecLambdaFair ==
    InitLambda /\ [][NextLambdaFair]_vars /\ \A w \in Workers : WF_vars(Processing(w))

\* C35: an accepted job eventually has status completed or failed with
\* completed_at set
C35_AcceptedJobEventuallyTerminal ==
    (1 \in DOMAIN table)
        ~> (/\ 1 \in DOMAIN table
            /\ table[1].status \in {COMPLETED, FAILED}
            /\ table[1].completed_at # None)

\* the jobs the submit and execute endpoints of the Lambda API create for
\* user u
EndpointJobs ==
    LET replies == {handle_submit_job(body, U_u, 1, 1) : body \in SubmitBodies}
                   \cup {handle_execute(body, U_u, 1, 1) : body \in ExecuteBodies}
    IN {c[1].job : c \in {r.created : r \in replies} \ {None}}

\* a Lambda pipeline ran on a job user u created through an endpoint
EndpointJobRan ==
    /\ Ran
    /\ lastRun.variant \in {"SummarizeAgentSync", "CreateProjectAgentSync",
                            "ExistingProjectAgentSync", "ExecuteAgentSync"}
    /\ lastRun.job \in EndpointJobs

\* C36: the raw_file_path of a job user u created through submit or execute
\* starts with 'u/', the user scope the pipelines derive from it is u, and
\* every storage call made for the job has a path under 'u/'
C36_JobStaysInCallerNamespace ==
    EndpointJobRan
        => /\ StartsWith(lastRun.job.raw_file_path, U_u \o SLASH)
           /\ user_id_of(lastRun.job.raw_file_path) = U_u
           /\ \A i \in DOMAIN lastRun.result.events :
                 lastRun.result.events[i].op \in {"fetch", "fetch_ctx", "list", "write"}
                    => StartsWith(lastRun.result.events[i].path, U_u \o SLASH)

\* a pipeline of the Lambda processor ran
LambdaPipelineRan ==
    /\ Ran
    /\ lastRun.variant \in {"SummarizeAgentSync", "CreateProjectAgentSync",
                            "ExistingProjectAgentSync", "ExecuteAgentSync"}

\* C37: handle_s3_event makes no job for the object-created event of any
\* object a pipeline wrote
C37_OutputsNeverTriggerJobs ==
    LambdaPipelineRan
        => \A i \in DOMAIN Writes : s3_event_job(Writes[i].path, 1, 1) = None

-----------------------------------------------------------------------------
(* Job.to_dict and Job.from_dict: models/job.py                              *)

\* datetime.isoformat() and datetime.fromisoformat(text): the text of a time
\* of the logical clock
isoformat(t) == <<"T", t>>
fromisoformat(text) == text[2]

\* data.get(key, default)
Get(data, key, default) == IF key \in DOMAIN data THEN data[key] ELSE default

to_dict_without_name(job) ==
    [id |-> job.id, job_type |-> job.job_type, status |-> job.status,
     raw_file_path |-> job.raw_file_path, additional_text |-> job.additional_text,
     project_id |-> job.project_id,
     output_path |-> job.output_path, result |-> job.result, error |-> job.error,
     created_at |-> isoformat(job.created_at),
     started_at |-> IF Truthy(job.started_at) THEN Some(isoformat(job.started_at[1]))
                    ELSE None,
     completed_at |-> IF Truthy(job.completed_at)
                      THEN Some(isoformat(job.completed_at[1])) ELSE None]

\* Job.to_dict
to_dict(job) ==
    [id |-> job.id, job_type |-> job.job_type, status |-> job.status,
     raw_file_path |-> job.raw_file_path, additional_text |-> job.additional_text,
     project_id |-> job.project_id, project_name |-> job.project_name,
     output_path |-> job.output_path, result |-> job.result, error |-> job.error,
     created_at |-> isoformat(job.created_at),
     started_at |-> IF Truthy(job.started_at) THEN Some(isoformat(job.started_at[1]))
                    ELSE None,
     completed_at |-> IF Truthy(job.completed_at)
                      THEN Some(isoformat(job.completed_at[1])) ELSE None]

\* Job.from_dict
from_dict(data) ==
    [id |-> data.id, job_type |-> data.job_type, status |-> data.status,
     raw_file_path |-> Get(data, "raw_file_path", <<>>),
     additional_text |-> Get(data, "additional_text", ""),
     project_id |-> Get(data, "project_id", None),
     project_name |-> Get(data, "project_name", None),
     output_path |-> Get(data, "output_path", None),
     result |-> Get(data, "result", EmptyDict),
     error |-> Get(data, "error", None),
     created_at |-> fromisoformat(data.created_at),
     started_at |-> IF Truthy(Get(data, "started_at", None))
                    THEN Some(fromisoformat(data.started_at[1])) ELSE None,
     completed_at |-> IF Truthy(Get(data, "completed_at", None))
                      THEN Some(fromisoformat(data.completed_at[1])) ELSE None]

\* jobs of every kind and status, each optional field set, empty or unset
SerialJobs ==
    {[Job(1, jt, P_raw_a_pdf, pid, nm, 1)
        EXCEPT !.status = st, !.output_path = op, !.result = rs, !.error = er,
               !.started_at = sa, !.completed_at = ca] @@ [additional_text |-> tx] :
        jt \in JobTypes, st \in {PENDING, PROCESSING, COMPLETED, FAILED},
        pid \in {None, Some(<<>>), Some(PID_p)}, nm \in Names,
        op \in {None, Some(P_notes_x)},
        rs \in {EmptyDict, Some(Data(Some(P_notes_x), None, 1, <<>>))},
        er \in {None, Some(""), Some(E_JSON)},
        sa \in {None, Some(2)}, ca \in {None, Some(3)}, tx \in {"", "text"}}

\* a job object
NewJob(job) ==
    /\ lastOp.op = "none"
    /\ lastOp' = [op |-> "job", job |-> job]
    /\ UNCHANGED <<storage_type, objects, table, jobs, workers, clock, lastRun, lastResp, trigger>>

\* data = job.to_dict()
ToDict ==
    /\ lastOp.op = "job"
    /\ lastOp' = [op |-> "to_dict", job |-> lastOp.job, data |-> to_dict(lastOp.job)]
    /\ UNCHANGED <<storage_type, objects, table, jobs, workers, clock, lastRun, lastResp, trigger>>

\* Job.from_dict(data)
FromDict ==
    /\ lastOp.op = "to_dict"
    /\ lastOp' = [op |-> "from_dict", job |-> lastOp.job, data |-> lastOp.data,
                  back |-> from_dict(lastOp.data)]
    /\ UNCHANGED <<storage_type, objects, table, jobs, workers, clock, lastRun, lastResp, trigger>>

NextSerial ==
    \/ \E job \in SerialJobs : NewJob(job)
    \/ ToDict
    \/ FromDict

SpecSerial == InitApi /\ [][NextSerial]_vars

\* C39: Job.from_dict(job.to_dict()) equals the job field by field
C39_JobRoundTrips ==
    lastOp.op = "from_dict"
        => /\ DOMAIN lastOp.back = DOMAIN lastOp.job
           /\ \A f \in DOMAIN lastOp.job : lastOp.back[f] = lastOp.job[f]

\* a completed execute job with project name, output path and both
\* timestamps, serialised with its times as text and read back
C39_Witness ==
    /\ lastOp.op = "from_dict"
    /\ lastOp.job.job_type = "execute" /\ lastOp.job.status = COMPLETED
    /\ lastOp.job.project_name = Some(N_app) /\ lastOp.job.output_path # None
    /\ lastOp.job.started_at = Some(2) /\ lastOp.job.completed_at = Some(3)
    /\ lastOp.data.completed_at = Some(isoformat(3))
    /\ lastOp.back.completed_at = Some(3)

====
